---- MODULE Spec2Model ----
(***************************************************************************)
(* QA Utility Hub: the selector generator (XPathGenerator), its string     *)
(* helpers, and the log analyzer with its analyze-log relay.               *)
(*                                                                         *)
(* Strings the code inspects character by character (attribute values,    *)
(* text, ids) are sequences of one-character strings.  An emitted selector *)
(* is first a sequence of tokens (syntax, tag names, attribute names and   *)
(* the characters of the escaped value) and is rendered to one string by   *)
(* Render; de-duplication and the selectors state work on rendered         *)
(* strings, as the code's Set of strings does.                             *)
(***************************************************************************)
EXTENDS Integers, Sequences, FiniteSets, Bags, TLC

VARIABLES
    html,        \* XPathGenerator: the textarea's markup (useState html)
    selectors,   \* XPathGenerator: the displayed result set (useState selectors)
    toast,       \* XPathGenerator: the toast of the last generateSelectors call
    parsed,      \* history: the last generateSelectors call reached the parser
    genHtml,     \* history: the markup the displayed result set was made from
    probe,       \* history: the markup and result of the first successful call,
                 \* and whether that markup was run again over another result
    cssEscape,   \* the host that runs the page defines CSS.escape
    escIn,       \* escapeXpathText: the argument of the last call
    escOut,      \* escapeXpathText: the value it returned
    logInput,    \* LogAnalyzer: the textarea's log (useState logInput)
    analysis,    \* LogAnalyzer: the displayed analysis (useState analysis)
    aiInsights,  \* LogAnalyzer: the displayed insights (useState aiInsights)
    isAnalyzing, \* LogAnalyzer: useState isAnalyzing
    isLoadingAI, \* LogAnalyzer: useState isLoadingAI
    requests,    \* analyze-log requests on their way to the function
    responses,   \* analyze-log responses on their way to the page
    relayed,     \* history: the function has posted a log to the AI gateway
    analysisOf,  \* history: the log the displayed analysis was computed from
    cssIn,       \* escapeCssAttr: the argument of the last call
    cssOut,      \* escapeCssAttr: the value it returned
    input,       \* JsonFormatter: the input textarea (useState input)
    output,      \* JsonFormatter: the output textarea (useState output)
    isValid,     \* JsonFormatter: useState isValid, null at first
    checked,     \* history: validateJson or beautifyJson has run since the
                 \* input was last edited
    beforeImage, \* ScreenshotComparator: useState beforeImage, a data URL
    afterImage,  \* ScreenshotComparator: useState afterImage, a data URL
    diffImage,   \* ScreenshotComparator: useState diffImage
    diffPercentage, \* ScreenshotComparator: useState diffPercentage
    shotToast,   \* ScreenshotComparator: the last toast of the page
    readers,     \* FileReaders that have not yet delivered their load event
    compares     \* the compareImages calls made, each with its two Images

xpathVars == <<html, selectors, toast, parsed, genHtml, probe, cssEscape>>
escVars == <<escIn, escOut>>
logVars == <<logInput, analysis, aiInsights, isAnalyzing, isLoadingAI,
             requests, responses, relayed, analysisOf>>
cssVars == <<cssIn, cssOut>>
jsonVars == <<input, output, isValid, checked>>
shotVars == <<beforeImage, afterImage, diffImage, diffPercentage, shotToast,
              readers, compares>>
vars == <<xpathVars, escVars, logVars, cssVars, jsonVars, shotVars>>

\* ------------------------------------------------------------- characters
SQ == "'"
DQ == "\""
BS == "\\"
SP == " "

Letters == {"a","b","c","d","e","f","g","h","i","j","k","l","m",
            "n","o","p","q","r","s","t","u","v","w","x","y","z",
            "A","B","C","D","E","F","G","H","I","J","K","L","M",
            "N","O","P","Q","R","S","T","U","V","W","X","Y","Z"}
Digits == {"0","1","2","3","4","5","6","7","8","9"}
HexDigits == Digits \cup {"a","b","c","d","e","f","A","B","C","D","E","F"}
Whitespace == {" ", "\n", "\t"}

\* the string a sequence of tokens spells (by halves, to keep the
\* evaluation shallow on long sequences)
RECURSIVE Render(_)
Render(toks) ==
    IF toks = <<>> THEN ""
    ELSE IF Len(toks) = 1 THEN toks[1]
    ELSE LET h == Len(toks) \div 2
         IN Render(SubSeq(toks, 1, h)) \o Render(SubSeq(toks, h + 1, Len(toks)))

Range(s) == {s[i] : i \in 1..Len(s)}

\* the concatenation of a sequence of sequences (by halves)
RECURSIVE Flatten(_)
Flatten(ss) ==
    IF ss = <<>> THEN <<>>
    ELSE IF Len(ss) = 1 THEN ss[1]
    ELSE LET h == Len(ss) \div 2
         IN Flatten(SubSeq(ss, 1, h)) \o Flatten(SubSeq(ss, h + 1, Len(ss)))

\* String.prototype.trim
RECURSIVE TrimLeft(_)
TrimLeft(s) ==
    IF s # <<>> /\ Head(s) \in Whitespace THEN TrimLeft(Tail(s)) ELSE s

RECURSIVE TrimRight(_)
TrimRight(s) ==
    IF s # <<>> /\ s[Len(s)] \in Whitespace
    THEN TrimRight(SubSeq(s, 1, Len(s) - 1)) ELSE s

Trim(s) == TrimRight(TrimLeft(s))

\* s.replace(/\s+/g, " ")
RECURSIVE CollapseWs(_)
CollapseWs(s) ==
    IF s = <<>> THEN <<>>
    ELSE IF Head(s) \in Whitespace
         THEN <<SP>> \o CollapseWs(TrimLeft(s))
         ELSE <<Head(s)>> \o CollapseWs(Tail(s))

NormalizeText(s) == CollapseWs(Trim(s))

\* ------------------------------------------------------------------ markup
\* A markup text is a sequence of pieces; a piece is a run of whitespace
\* ("WS") or one of the snippets below.  The markups typed are the empty one,
\* the one of whitespace alone and the sequences of snippets (whitespace
\* between snippets changes nothing the tool reads).  A snippet is a sequence of tags:
\* a start tag carries its attributes and the text that follows it, an end
\* tag only its name.
Open(tag, attrs, text) == [k |-> "open", tag |-> tag, attrs |-> attrs, text |-> text]
Close(tag) == [k |-> "close", tag |-> tag, attrs |-> <<>>, text |-> <<>>]
NoAttrs == <<>>

\* <label for="em">Email</label><input id="em">
\* <script id="sc" data-testid="s"></script>
SnippetEmail ==
    << Open("label", "for" :> <<"e","m">>, <<"E","m","a","i","l">>),
       Close("label"),
       Open("input", "id" :> <<"e","m">>, <<>>),
       Open("script", ("id" :> <<"s","c">>) @@ ("data-testid" :> <<"s">>), <<>>),
       Close("script") >>

\* <label for="em">  </label>
SnippetBlankLabel ==
    << Open("label", "for" :> <<"e","m">>, <<SP, SP>>), Close("label") >>

\* <button data-testid="a'b" data-cy="" data-test='q"&#39;'> Go  on </button>
\* <div id="f"><select data-qa="q" name="n"></select></div><textarea></textarea>
SnippetControls ==
    << Open("button",
            ("data-testid" :> <<"a", SQ, "b">>) @@ ("data-cy" :> <<>>)
                @@ ("data-test" :> <<"q", DQ, SQ>>),
            <<SP, "G", "o", SP, SP, "o", "n", SP>>),
       Close("button"),
       Open("div", "id" :> <<"f">>, <<>>),
       Open("select", ("data-qa" :> <<"q">>) @@ ("name" :> <<"n">>), <<>>),
       Close("select"),
       Close("div"),
       Open("textarea", NoAttrs, <<>>),
       Close("textarea") >>

\* the elements the loop of generateSelectors inspects (index < 100)
InspectLimit == 100

\* as many <br> as put the next element last among the inspected ones
\* (html, head and body come first)
SnippetPad == [i \in 1..(InspectLimit - 4) |-> Open("br", NoAttrs, <<>>)]

\* text.length < 50
TextLimit == 50

Xs(n) == [i \in 1..n |-> "x"]

\* <input id="a'b" name="n"><a id="1x"></a><span id=""></span>
SnippetQuoted ==
    << Open("input", ("id" :> <<"a", SQ, "b">>) @@ ("name" :> <<"n">>), <<>>),
       Open("a", "id" :> <<"1", "x">>, <<>>),
       Close("a"),
       Open("span", "id" :> <<>>, <<>>),
       Close("span") >>

\* <div id="o"><div id="n"><span><a data-cy="c" role="r" href="u">x</a>
\* <button></button><a></a></span></div></div>   (no space between the tags)
SnippetNested ==
    << Open("div", "id" :> <<"o">>, <<>>),
       Open("div", "id" :> <<"n">>, <<>>),
       Open("span", NoAttrs, <<>>),
       Open("a", ("data-cy" :> <<"c">>) @@ ("role" :> <<"r">>) @@ ("href" :> <<"u">>),
            <<"x">>),
       Close("a"),
       Open("button", NoAttrs, <<>>),
       Close("button"),
       Open("a", NoAttrs, <<>>),
       Close("a"),
       Close("span"),
       Close("div"),
       Close("div") >>

\* <label for="q">Q<input id="q" data-qa="z" type="t"></label>
SnippetForm ==
    << Open("label", "for" :> <<"q">>, <<"Q">>),
       Open("input", ("id" :> <<"q">>) @@ ("data-qa" :> <<"z">>) @@ ("type" :> <<"t">>),
            <<>>),
       Close("label") >>

\* <span><a></a><button>Hi</button><a></a></span>
SnippetPlain ==
    << Open("span", NoAttrs, <<>>),
       Open("a", NoAttrs, <<>>),
       Close("a"),
       Open("button", NoAttrs, <<"H", "i">>),
       Close("button"),
       Open("a", NoAttrs, <<>>),
       Close("a"),
       Close("span") >>

\* <div><label>A</label><input><label>B</label><select></select></div>
SnippetLabels ==
    << Open("div", NoAttrs, <<>>),
       Open("label", NoAttrs, <<"A">>),
       Close("label"),
       Open("input", NoAttrs, <<>>),
       Open("label", NoAttrs, <<"B">>),
       Close("label"),
       Open("select", NoAttrs, <<>>),
       Close("select"),
       Close("div") >>

\* <p>x..x</p> (49 characters) <span>x..x</span> (50) <div>hi<b></b></div>
\* <em>t</em> <h1> a  b </h1> <h2>x..x  y</h2> (50 once collapsed)
\* <h3>x..x  y</h3> (49 once collapsed)   (no space between the tags)
SnippetTexts ==
    << Open("p", NoAttrs, Xs(TextLimit - 1)),
       Close("p"),
       Open("span", NoAttrs, Xs(TextLimit)),
       Close("span"),
       Open("div", NoAttrs, <<"h", "i">>),
       Open("b", NoAttrs, <<>>),
       Close("b"),
       Close("div"),
       Open("em", NoAttrs, <<"t">>),
       Close("em"),
       Open("h1", NoAttrs, <<SP, "a", SP, SP, "b", SP>>),
       Close("h1"),
       Open("h2", NoAttrs, Xs(TextLimit - 2) \o <<SP, SP, "y">>),
       Close("h2"),
       Open("h3", NoAttrs, Xs(TextLimit - 3) \o <<SP, "\n", "y">>),
       Close("h3") >>

\* <label>Na me<div><textarea></textarea><b> x</b></div></label>
SnippetDeep ==
    << Open("label", NoAttrs, <<"N", "a", SP, "m", "e">>),
       Open("div", NoAttrs, <<>>),
       Open("textarea", NoAttrs, <<>>),
       Close("textarea"),
       Open("b", NoAttrs, <<SP, "x">>),
       Close("b"),
       Close("div"),
       Close("label") >>

\* <label> <span><select></select></span></label>
SnippetHollow ==
    << Open("label", NoAttrs, <<SP>>),
       Open("span", NoAttrs, <<>>),
       Open("select", NoAttrs, <<>>),
       Close("select"),
       Close("span"),
       Close("label") >>

\* <label>Out<label> <input></label></label>
SnippetDouble ==
    << Open("label", NoAttrs, <<"O", "u", "t">>),
       Open("label", NoAttrs, <<SP>>),
       Open("input", NoAttrs, <<>>),
       Close("label"),
       Close("label") >>

\* <a src="s" href="h'" alt='a"b' aria-label="" role="r\" type="'&quot;"
\*    placeholder="p" name="n"></a><img alt="s">
SnippetAttrs ==
    << Open("a", ("src" :> <<"s">>) @@ ("href" :> <<"h", SQ>>)
                    @@ ("alt" :> <<"a", DQ, "b">>) @@ ("aria-label" :> <<>>)
                    @@ ("role" :> <<"r", BS>>) @@ ("type" :> <<SQ, DQ>>)
                    @@ ("placeholder" :> <<"p">>) @@ ("name" :> <<"n">>), <<>>),
       Close("a"),
       Open("img", "alt" :> <<"s">>, <<>>) >>

\* <input id="em"><label for="em">Email</label>
SnippetLate ==
    << Open("input", "id" :> <<"e","m">>, <<>>),
       Open("label", "for" :> <<"e","m">>, <<"E","m","a","i","l">>),
       Close("label") >>

\* <input id="em">
SnippetLone ==
    << Open("input", "id" :> <<"e","m">>, <<>>) >>

\* <form><input name="parentElement"><select name="parentElement"></select>
\* <a href="u">go</a></form><form><textarea name="parentElement"></textarea>
\* </form><button>b</button>   (no space between the tags)
SnippetForms ==
    << Open("form", NoAttrs, <<>>),
       Open("input", "name" :> <<"p","a","r","e","n","t","E","l","e","m","e","n","t">>, <<>>),
       Open("select", "name" :> <<"p","a","r","e","n","t","E","l","e","m","e","n","t">>, <<>>),
       Close("select"),
       Open("a", "href" :> <<"u">>, <<"g", "o">>),
       Close("a"),
       Close("form"),
       Open("form", NoAttrs, <<>>),
       Open("textarea", "name" :> <<"p","a","r","e","n","t","E","l","e","m","e","n","t">>, <<>>),
       Close("textarea"),
       Close("form"),
       Open("button", NoAttrs, <<"b">>),
       Close("button") >>

SnippetText ==
    [p \in {"email", "blank", "controls", "pad",
            "quoted", "nested", "form", "plain", "labels", "texts",
            "deep", "hollow", "double", "attrs", "late", "lone", "forms"} |->
        CASE p = "email" -> SnippetEmail
          [] p = "blank" -> SnippetBlankLabel
          [] p = "controls" -> SnippetControls
          [] p = "pad" -> SnippetPad
          [] p = "quoted" -> SnippetQuoted
          [] p = "nested" -> SnippetNested
          [] p = "form" -> SnippetForm
          [] p = "plain" -> SnippetPlain
          [] p = "labels" -> SnippetLabels
          [] p = "texts" -> SnippetTexts
          [] p = "deep" -> SnippetDeep
          [] p = "hollow" -> SnippetHollow
          [] p = "double" -> SnippetDouble
          [] p = "attrs" -> SnippetAttrs
          [] p = "late" -> SnippetLate
          [] p = "lone" -> SnippetLone
          [] p = "forms" -> SnippetForms]

Snippets == {"email", "blank", "controls", "pad"}

\* a second set of snippets, typed under SpecShapes
ShapeSnippets == {"quoted", "nested", "form", "plain", "labels", "texts"}

\* the longest markup typed under SpecShapes, in snippets
MaxPiecesShapes == 1

MarkupsShapes == UNION {[1..n -> ShapeSnippets] : n \in 0..MaxPiecesShapes}

\* a third set of snippets, typed under SpecForms alone or after the pad
FormSnippets == {"deep", "hollow", "double", "attrs", "late", "lone", "forms"}

\* the longest markup typed under SpecForms, in snippets, the pad apart
MaxPiecesForms == 1

MarkupsForms ==
    LET ms == UNION {[1..n -> FormSnippets] : n \in 0..MaxPiecesForms}
    IN ms \cup {<<"pad">> \o m : m \in ms}

\* the snippets typed under SpecFresh: one whose call fails on a host
\* without CSS.escape and two whose calls succeed on every host
FreshSnippets == {"attrs", "lone", "forms"}

\* the longest markup typed under SpecFresh, in snippets
MaxPiecesFresh == 1

MarkupsFresh == UNION {[1..n -> FreshSnippets] : n \in 0..MaxPiecesFresh} \cup {<<"WS">>}

\* the longest markup typed, in snippets
MaxPieces == 2

Markups == UNION {[1..n -> Snippets] : n \in 0..MaxPieces} \cup {<<"WS">>}

Tags(markup) ==
    Flatten([i \in 1..Len(markup) |->
        IF markup[i] = "WS" THEN <<>> ELSE SnippetText[markup[i]]])

\* html.trim(): the markup without its leading and trailing whitespace (a
\* snippet starts and ends with a tag)
RECURSIVE trimLeftMarkup(_)
trimLeftMarkup(markup) ==
    IF markup # <<>> /\ Head(markup) = "WS" THEN trimLeftMarkup(Tail(markup))
    ELSE markup

RECURSIVE trimMarkup(_)
trimMarkup(markup) ==
    LET m == trimLeftMarkup(markup)
    IN IF m # <<>> /\ m[Len(m)] = "WS" THEN trimMarkup(SubSeq(m, 1, Len(m) - 1))
       ELSE m

\* --------------------------------------------------------------- DOMParser
\* parseFromString(html, "text/html"): a document is the sequence of its
\* elements in document order; an element has a tag, its attributes, the
\* text that follows its start tag, and its parent's position (0: none).
\* html, head and body are always made.
VoidTags == {"input", "br", "meta", "img"}

Scaffold ==
    << [tag |-> "html", attrs |-> NoAttrs, text |-> <<>>, parent |-> 0],
       [tag |-> "head", attrs |-> NoAttrs, text |-> <<>>, parent |-> 1],
       [tag |-> "body", attrs |-> NoAttrs, text |-> <<>>, parent |-> 1] >>

\* One tag: a start tag appends an element under the innermost open element
\* and, unless the element is void, opens it; an end tag closes the innermost
\* open element when it names it, and is ignored otherwise.
ParseTag(t, st) ==
    LET top == st.stack[Len(st.stack)]
    IN IF t.k = "open"
       THEN LET el == [tag |-> t.tag, attrs |-> t.attrs, text |-> t.text,
                       parent |-> top]
                doc2 == Append(st.doc, el)
            IN [doc |-> doc2,
                stack |-> IF t.tag \in VoidTags THEN st.stack
                          ELSE Append(st.stack, Len(doc2))]
       ELSE IF Len(st.stack) > 1 /\ st.doc[top].tag = t.tag
            THEN [doc |-> st.doc, stack |-> SubSeq(st.stack, 1, Len(st.stack) - 1)]
            ELSE st

RECURSIVE ParseRun(_, _)
ParseRun(tags, st) ==
    IF tags = <<>> \/ st.stack = <<>> THEN st
    ELSE ParseRun(Tail(tags), ParseTag(Head(tags), st))

\* the tags in order, sixteen at a time (to keep the evaluation shallow)
RECURSIVE ParseTags(_, _)
ParseTags(tags, st) ==
    IF Len(tags) <= 16 \/ st.stack = <<>> THEN ParseRun(tags, st)
    ELSE ParseTags(SubSeq(tags, 17, Len(tags)), ParseRun(SubSeq(tags, 1, 16), st))

parseFromString(markup) ==
    ParseTags(Tags(markup), [doc |-> Scaffold, stack |-> <<3>>]).doc

\* ----------------------------------------------------------- DOM accessors
\* An optional value is <<>> (null) or <<v>>.
Some(v) == <<v>>
None == <<>>

getAttribute(el, a) == IF a \in DOMAIN el.attrs THEN Some(el.attrs[a]) ELSE None

\* `if (value)`: neither null nor the empty string
Truthy(v) == v # None /\ v[1] # <<>>

RECURSIVE IsAncestorOrSelf(_, _, _)
IsAncestorOrSelf(doc, a, i) ==
    IF i = 0 THEN FALSE
    ELSE IF i = a THEN TRUE
    ELSE IsAncestorOrSelf(doc, a, doc[i].parent)

\* el.textContent: the text of the element and of its descendants, in
\* document order
textContent(doc, i) ==
    Flatten([j \in 1..Len(doc) |->
        IF IsAncestorOrSelf(doc, i, j) THEN doc[j].text ELSE <<>>])

\* parent.querySelector("label"): the first descendant that is a label, or 0
FirstLabelUnder(doc, p) ==
    LET hits == {j \in 1..Len(doc) :
                    j # p /\ doc[j].tag = "label" /\ IsAncestorOrSelf(doc, p, j)}
    IN IF hits = {} THEN 0 ELSE CHOOSE j \in hits : \A h \in hits : j <= h

\* el.closest("label"): the nearest label among the element and its
\* ancestors, or 0
RECURSIVE closestLabel(_, _)
closestLabel(doc, i) ==
    IF i = 0 THEN 0
    ELSE IF doc[i].tag = "label" THEN i
    ELSE closestLabel(doc, doc[i].parent)

nextElementSibling(doc, i) ==
    LET later == {j \in 1..Len(doc) : j > i /\ doc[j].parent = doc[i].parent}
    IN IF later = {} THEN 0 ELSE CHOOSE j \in later : \A h \in later : j <= h

firstElementChild(doc, i) ==
    IF i < Len(doc) /\ doc[i + 1].parent = i THEN i + 1 ELSE 0


\* ------------------------------------------------------- escaping helpers
RECURSIVE ReplaceAll(_, _, _)
ReplaceAll(s, c, by) ==
    IF s = <<>> THEN <<>>
    ELSE (IF Head(s) = c THEN by ELSE <<Head(s)>>) \o ReplaceAll(Tail(s), c, by)

\* s.indexOf(c) === -1
NotIn(s, c) == \A i \in 1..Len(s) : s[i] # c

\* a plausible slip: with both quotes present, the double quotes are
\* backslash-escaped inside a double-quoted literal
escapeXpathTextBackslash(s) ==
    IF NotIn(s, SQ) THEN <<SQ>> \o s \o <<SQ>>
    ELSE <<DQ>> \o ReplaceAll(s, DQ, <<BS, DQ>>) \o <<DQ>>

escapeXpathText(s) ==
    IF NotIn(s, SQ) THEN <<SQ>> \o s \o <<SQ>>
    ELSE IF NotIn(s, DQ) THEN <<DQ>> \o s \o <<DQ>>
    ELSE <<"c","o","n","c","a","t","(",SQ>>
            \o ReplaceAll(s, SQ, <<SQ, ",", DQ, SQ, DQ, ",", SQ>>)
            \o <<SQ, ")">>

\* a plausible slip: the double quotes are escaped before the backslashes
escapeCssAttrQuotesFirst(val) ==
    LET escaped == ReplaceAll(ReplaceAll(val, DQ, <<BS, DQ>>), BS, <<BS, BS>>)
    IN <<DQ>> \o escaped \o <<DQ>>

escapeCssAttr(val) ==
    LET escaped == ReplaceAll(ReplaceAll(val, BS, <<BS, BS>>), DQ, <<BS, DQ>>)
    IN <<DQ>> \o escaped \o <<DQ>>

\* CSS.escape (CSSOM "serialize an identifier"), for the characters above
CssEscapeChar(s, i) ==
    LET c == s[i]
    IN IF c = "\n" THEN <<BS, "a", SP>>
       ELSE IF c = "\t" THEN <<BS, "9", SP>>
       ELSE IF c \in Digits /\ (i = 1 \/ (i = 2 /\ s[1] = "-"))
            THEN <<BS, "3", c, SP>>
       ELSE IF c = "-" /\ i = 1 /\ Len(s) = 1 THEN <<BS, c>>
       ELSE IF c \in Letters \cup Digits \cup {"-", "_"} THEN <<c>>
       ELSE <<BS, c>>

CssEscape(s) == Flatten([i \in 1..Len(s) |-> CssEscapeChar(s, i)])

\* The value of the double-quoted CSS string whose content is s, as the
\* selector parser reads it: [ok |-> FALSE] when a quote or a newline ends
\* the string early (the selector is then invalid).
HexVal(c) ==
    CASE c \in Digits -> CHOOSE n \in 0..9 : ToString(n) = c
      [] c \in {"a", "A"} -> 10
      [] c \in {"b", "B"} -> 11
      [] c \in {"c", "C"} -> 12
      [] c \in {"d", "D"} -> 13
      [] c \in {"e", "E"} -> 14
      [] c \in {"f", "F"} -> 15

CodePoint(n) ==
    IF n \in 48..57 THEN ToString(n - 48)
    ELSE IF n = 10 THEN "\n"
    ELSE IF n = 9 THEN "\t"
    ELSE "?"

RECURSIVE HexRun(_, _, _)
HexRun(s, i, n) ==
    IF n < 6 /\ i + n <= Len(s) /\ s[i + n] \in HexDigits THEN HexRun(s, i, n + 1)
    ELSE n

RECURSIVE HexNumber(_, _)
HexNumber(s, acc) ==
    IF s = <<>> THEN acc ELSE HexNumber(Tail(s), acc * 16 + HexVal(Head(s)))

RECURSIVE CssStringValue(_, _, _)
CssStringValue(s, i, acc) ==
    IF i > Len(s) THEN [ok |-> TRUE, value |-> acc]
    ELSE IF s[i] = DQ \/ s[i] = "\n" THEN [ok |-> FALSE, value |-> acc]
    ELSE IF s[i] # BS THEN CssStringValue(s, i + 1, Append(acc, s[i]))
    ELSE IF i = Len(s) THEN [ok |-> TRUE, value |-> acc]
    ELSE IF s[i + 1] = "\n" THEN CssStringValue(s, i + 2, acc)
    ELSE IF s[i + 1] \in HexDigits
         THEN LET n == HexRun(s, i + 1, 0)
                  after == i + 1 + n
                  c == CodePoint(HexNumber(SubSeq(s, i + 1, i + n), 0))
              IN CssStringValue(s,
                    IF after <= Len(s) /\ s[after] \in Whitespace
                    THEN after + 1 ELSE after,
                    Append(acc, c))
    ELSE CssStringValue(s, i + 2, Append(acc, s[i + 1]))

\* doc.querySelector(`label[for="${escaped}"]`): the first label in the
\* document whose for attribute is the string's value, 0 when there is none,
\* -1 when the selector is invalid (querySelector throws)
querySelectorLabelFor(doc, escaped) ==
    LET str == CssStringValue(escaped, 1, <<>>)
        hits == {j \in 1..Len(doc) :
                    doc[j].tag = "label" /\ getAttribute(doc[j], "for") = Some(str.value)}
    IN IF ~str.ok THEN -1
       ELSE IF hits = {} THEN 0
       ELSE CHOOSE j \in hits : \A h \in hits : j <= h


\* ---------------------------------------------------------------- getXPathTo
\* element.id: the id attribute, "" when there is none
ElementId(el) == IF "id" \in DOMAIN el.attrs THEN el.attrs["id"] ELSE <<>>

\* `document.body` is the body of the page that runs the tool; no element of
\* a document made by DOMParser is that element
PageBody == 0

\* a plausible slip: every element sibling before i is counted
SameTagBeforeAnyTag(doc, i) ==
    Cardinality({j \in 1..(i - 1) : doc[j].parent = doc[i].parent})

\* the elements before i among the children of its parent with i's tag name
SameTagBefore(doc, i) ==
    Cardinality({j \in 1..(i - 1) :
        doc[j].parent = doc[i].parent /\ doc[j].tag = doc[i].tag})

\* a plausible slip: the id check is left out
RECURSIVE getXPathToIgnoringIds(_, _)
getXPathToIgnoringIds(doc, i) ==
    IF doc[i].tag = "html" THEN <<"/", "html">>
    ELSE IF doc[i].parent = 0 THEN <<"/", doc[i].tag>>
    ELSE getXPathToIgnoringIds(doc, doc[i].parent)
            \o <<"/", doc[i].tag, "[", ToString(SameTagBefore(doc, i) + 1), "]">>

\* A form looks a property name up among its controls before its own
\* properties: the listed elements it owns (here: its descendants) whose
\* name or id is that name.
ListedTags == {"button", "fieldset", "input", "object", "output", "select", "textarea"}

RECURSIVE closestForm(_, _)
closestForm(doc, i) ==
    IF i = 0 THEN 0
    ELSE IF doc[i].tag = "form" THEN i
    ELSE closestForm(doc, doc[i].parent)

NamedControls(doc, f, name) ==
    {j \in 1..Len(doc) :
        /\ doc[j].tag \in ListedTags
        /\ closestForm(doc, doc[j].parent) = f
        /\ \/ getAttribute(doc[j], "name") = Some(name)
           \/ getAttribute(doc[j], "id") = Some(name)}

\* element.parentElement: [k |-> "null"], [k |-> "el", at |-> j], or, on a
\* form with several controls of that name, [k |-> "list"] (a RadioNodeList)
parentElement(doc, i) ==
    LET named == IF doc[i].tag = "form"
                 THEN NamedControls(doc, i, <<"p","a","r","e","n","t","E","l","e","m","e","n","t">>)
                 ELSE {}
    IN IF Cardinality(named) > 1 THEN [k |-> "list", at |-> 0]
       ELSE IF named # {} THEN [k |-> "el", at |-> CHOOSE j \in named : TRUE]
       ELSE IF doc[i].parent = 0 THEN [k |-> "null", at |-> 0]
       ELSE [k |-> "el", at |-> doc[i].parent]

\* what getXPathTo yields when it raises (a TypeError on reading length of
\* the undefined children of a RadioNodeList)
Threw == <<"TypeError">>

RECURSIVE getXPathTo(_, _)
getXPathTo(doc, i) ==
    IF ElementId(doc[i]) # <<>>
    THEN <<"//*[@id=", SQ>> \o ElementId(doc[i]) \o <<SQ, "]">>
    ELSE IF doc[i].tag = "html" THEN <<"/", "html">>
    ELSE IF i = PageBody THEN <<"/", "html", "/", "body">>
    ELSE LET up == parentElement(doc, i)
         IN IF up.k = "null" THEN <<"/", doc[i].tag>>
            ELSE IF up.k = "list" THEN Threw
            ELSE IF doc[i].parent # up.at THEN <<"/", doc[i].tag>>
            ELSE LET above == getXPathTo(doc, up.at)
                 IN IF above = Threw THEN Threw
                    ELSE above \o <<"/", doc[i].tag, "[",
                                    ToString(SameTagBefore(doc, i) + 1), "]">>

\* -------------------------------------------------------- the rule cascade
STABLE_ATTRIBUTES ==
    <<"name", "placeholder", "type", "role", "aria-label", "alt", "href", "src">>
TEST_ID_ATTRIBUTES == <<"data-testid", "data-cy", "data-qa", "data-test">>

SkipTags == {"html", "head", "body", "script", "style", "meta", "title"}
LabelTags == {"input", "textarea", "select"}
TextTags == {"button", "a", "div", "span", "h1", "h2", "h3", "p", "legend"}
PathTags == {"input", "button", "a", "select", "textarea"}

Sentinel == "No data-test* attributes found"

\* What a piece of the loop body pushes: x onto xpaths, c onto cssSelectors,
\* t onto dataTestIdSelectors; threw when it raises.
Pushes(x, c, t) == [x |-> x, c |-> c, t |-> t, threw |-> FALSE]
NoPush == Pushes(<<>>, <<>>, <<>>)
Raise == [x |-> <<>>, c |-> <<>>, t |-> <<>>, threw |-> TRUE]
Then(a, b) ==
    IF a.threw THEN a
    ELSE [x |-> a.x \o b.x, c |-> a.c \o b.c, t |-> a.t \o b.t, threw |-> b.threw]

\* the pushes of a sequence of pieces run one after the other (by halves)
RECURSIVE ThenAll(_)
ThenAll(ps) ==
    IF ps = <<>> THEN NoPush
    ELSE IF Len(ps) = 1 THEN ps[1]
    ELSE LET h == Len(ps) \div 2
         IN Then(ThenAll(SubSeq(ps, 1, h)), ThenAll(SubSeq(ps, h + 1, Len(ps))))

labelText(doc, l) == NormalizeText(textContent(doc, l))

\* a plausible slip: the selector is not pushed onto dataTestIdSelectors
TestIdPushNotRegistered(el, attr) ==
    LET value == getAttribute(el, attr)
    IN IF Truthy(value)
       THEN LET selector == <<el.tag, "[", attr, "=">> \o escapeCssAttr(value[1]) \o <<"]">>
            IN Pushes(<< <<"//", el.tag, "[@", attr, "=">>
                            \o escapeXpathText(value[1]) \o <<"]">> >>,
                      <<selector>>, <<>>)
       ELSE NoPush

\* a plausible slip: the CSS form is pushed onto xpaths as well
TestIdPushSelectorIntoXPath(el, attr) ==
    LET value == getAttribute(el, attr)
    IN IF Truthy(value)
       THEN LET selector == <<el.tag, "[", attr, "=">> \o escapeCssAttr(value[1]) \o <<"]">>
            IN Pushes(<< <<"//", el.tag, "[@", attr, "=">>
                            \o escapeXpathText(value[1]) \o <<"]">>, selector >>,
                      <<selector>>, <<selector>>)
       ELSE NoPush

\* 1: data-test* attributes
TestIdPush(el, attr) ==
    LET value == getAttribute(el, attr)
    IN IF Truthy(value)
       THEN LET selector == <<el.tag, "[", attr, "=">> \o escapeCssAttr(value[1]) \o <<"]">>
            IN Pushes(<< <<"//", el.tag, "[@", attr, "=">>
                            \o escapeXpathText(value[1]) \o <<"]">> >>,
                      <<selector>>, <<selector>>)
       ELSE NoPush

TestIdRule(el) ==
    ThenAll([k \in 1..Len(TEST_ID_ATTRIBUTES) |-> TestIdPush(el, TEST_ID_ATTRIBUTES[k])])

\* a plausible slip: the id goes into the CSS selector as it is
IdRuleRawCss(el) ==
    LET id == getAttribute(el, "id")
    IN IF Truthy(id)
       THEN Pushes(<< <<"//", el.tag, "[@id=">> \o escapeXpathText(id[1]) \o <<"]">> >>,
                   << <<el.tag, "#">> \o id[1] >>, <<>>)
       ELSE NoPush

\* 2: id
IdRule(el) ==
    LET id == getAttribute(el, "id")
    IN IF Truthy(id)
       THEN Pushes(<< <<"//", el.tag, "[@id=">> \o escapeXpathText(id[1]) \o <<"]">> >>,
                   << <<el.tag, "#">> \o CssEscape(id[1]) >>, <<>>)
       ELSE NoPush

\* 3a: <label for=id>
LabelForRule(doc, i) ==
    LET el == doc[i]
        id == getAttribute(el, "id")
        linkedLabel == querySelectorLabelFor(doc, CssEscape(id[1]))
    IN IF ~Truthy(id) THEN NoPush
       ELSE IF linkedLabel = -1 THEN Raise
       ELSE IF linkedLabel # 0 /\ Trim(textContent(doc, linkedLabel)) # <<>>
            THEN Pushes(<< <<"//", el.tag, "[@id=//label[normalize-space(text())=">>
                            \o escapeXpathText(labelText(doc, linkedLabel))
                            \o <<"]/@for]">> >>, <<>>, <<>>)
       ELSE NoPush

\* a plausible slip: the label must be the element's parent
ParentLabelRuleParentOnly(doc, i) ==
    LET parentLabel ==
            IF doc[i].parent # 0 /\ doc[doc[i].parent].tag = "label"
            THEN doc[i].parent ELSE 0
    IN IF parentLabel # 0 /\ Trim(textContent(doc, parentLabel)) # <<>>
       THEN Pushes(<< <<"//label[normalize-space(text())=">>
                        \o escapeXpathText(labelText(doc, parentLabel))
                        \o <<"]//", doc[i].tag>> >>,
                   << <<"label:has(", doc[i].tag, ")">> >>, <<>>)
       ELSE NoPush

\* 3b: an enclosing label
ParentLabelRule(doc, i) ==
    LET parentLabel == closestLabel(doc, i)
    IN IF parentLabel # 0 /\ Trim(textContent(doc, parentLabel)) # <<>>
       THEN Pushes(<< <<"//label[normalize-space(text())=">>
                        \o escapeXpathText(labelText(doc, parentLabel))
                        \o <<"]//", doc[i].tag>> >>,
                   << <<"label:has(", doc[i].tag, ")">> >>, <<>>)
       ELSE NoPush

\* 3c: a label right before the element
SiblingLabelRule(doc, i) ==
    LET siblingLabel ==
            IF doc[i].parent = 0 THEN 0 ELSE FirstLabelUnder(doc, doc[i].parent)
    IN IF siblingLabel # 0 /\ Trim(textContent(doc, siblingLabel)) # <<>>
            /\ nextElementSibling(doc, siblingLabel) = i
       THEN Pushes(<< <<"//label[normalize-space(text())=">>
                        \o escapeXpathText(labelText(doc, siblingLabel))
                        \o <<"]/following-sibling::", doc[i].tag>> >>, <<>>, <<>>)
       ELSE NoPush

LabelRule(doc, i) ==
    IF doc[i].tag \in LabelTags
    THEN ThenAll(<<LabelForRule(doc, i), ParentLabelRule(doc, i), SiblingLabelRule(doc, i)>>)
    ELSE NoPush

\* a plausible slip: text.length <= 50
TextRuleUpToLimit(doc, i) ==
    LET text == NormalizeText(textContent(doc, i))
        escapedText == escapeXpathText(text)
    IN IF doc[i].tag \in TextTags /\ text # <<>> /\ Len(text) <= TextLimit
            /\ firstElementChild(doc, i) = 0
       THEN Pushes(<< <<"//", doc[i].tag, "[normalize-space(text())=">>
                        \o escapedText \o <<"]">>,
                      <<"//", doc[i].tag, "[contains(normalize-space(text()), ">>
                        \o escapedText \o <<")]">> >>, <<>>, <<>>)
       ELSE NoPush

\* 4: text of a leaf element
TextRule(doc, i) ==
    LET text == NormalizeText(textContent(doc, i))
        escapedText == escapeXpathText(text)
    IN IF doc[i].tag \in TextTags /\ text # <<>> /\ Len(text) < TextLimit
            /\ firstElementChild(doc, i) = 0
       THEN Pushes(<< <<"//", doc[i].tag, "[normalize-space(text())=">>
                        \o escapedText \o <<"]">>,
                      <<"//", doc[i].tag, "[contains(normalize-space(text()), ">>
                        \o escapedText \o <<")]">> >>, <<>>, <<>>)
       ELSE NoPush

\* a plausible slip: the value goes between the double quotes as it is
StablePushRawCss(el, attr) ==
    LET value == getAttribute(el, attr)
    IN IF Truthy(value)
       THEN Pushes(<< <<"//", el.tag, "[@", attr, "=">>
                        \o escapeXpathText(value[1]) \o <<"]">> >>,
                   << <<el.tag, "[", attr, "=">> \o <<DQ>> \o value[1] \o <<DQ, "]">> >>,
                   <<>>)
       ELSE NoPush

\* 5: stable attributes
StablePush(el, attr) ==
    LET value == getAttribute(el, attr)
    IN IF Truthy(value)
       THEN Pushes(<< <<"//", el.tag, "[@", attr, "=">>
                        \o escapeXpathText(value[1]) \o <<"]">> >>,
                   << <<el.tag, "[", attr, "=">> \o escapeCssAttr(value[1]) \o <<"]">> >>,
                   <<>>)
       ELSE NoPush

StableRule(el) ==
    ThenAll([k \in 1..Len(STABLE_ATTRIBUTES) |-> StablePush(el, STABLE_ATTRIBUTES[k])])

\* a plausible slip: no try around the call of getXPathTo
PathRuleNoCatch(doc, i) ==
    IF doc[i].tag \notin PathTags THEN NoPush
    ELSE IF getXPathTo(doc, i) = Threw THEN Raise
    ELSE Pushes(<<getXPathTo(doc, i)>>, <<>>, <<>>)

\* 6: the indexed path; what getXPathTo raises is caught and ignored
PathRule(doc, i) ==
    IF doc[i].tag \notin PathTags THEN NoPush
    ELSE IF getXPathTo(doc, i) = Threw THEN NoPush
    ELSE Pushes(<<getXPathTo(doc, i)>>, <<>>, <<>>)

\* a plausible slip: the stable attributes are looked at before the text
CascadeStableBeforeText(doc, i) ==
    ThenAll(<<TestIdRule(doc[i]), IdRule(doc[i]), LabelRule(doc, i),
              StableRule(doc[i]), TextRule(doc, i), PathRule(doc, i)>>)

Cascade(doc, i) ==
    ThenAll(<<TestIdRule(doc[i]), IdRule(doc[i]), LabelRule(doc, i),
              TextRule(doc, i), StableRule(doc[i]), PathRule(doc, i)>>)

\* a plausible slip: the skip list is left out
LoopBodyNoSkipList(doc, i) ==
    IF i - 1 >= InspectLimit THEN [ran |-> FALSE, p |-> NoPush]
    ELSE [ran |-> TRUE, p |-> Cascade(doc, i)]

\* a plausible slip: index > 100 for index >= 100
LoopBodyOffByOne(doc, i) ==
    IF i - 1 > InspectLimit THEN [ran |-> FALSE, p |-> NoPush]
    ELSE IF doc[i].tag \in SkipTags THEN [ran |-> FALSE, p |-> NoPush]
    ELSE [ran |-> TRUE, p |-> Cascade(doc, i)]

\* elements.forEach((el, index) => ...): index is i - 1.  ran tells whether
\* the body got past its two early returns.
LoopBody(doc, i) ==
    IF i - 1 >= InspectLimit THEN [ran |-> FALSE, p |-> NoPush]
    ELSE IF doc[i].tag \in SkipTags THEN [ran |-> FALSE, p |-> NoPush]
    ELSE [ran |-> TRUE, p |-> Cascade(doc, i)]

\* The accumulators after the loop.  xBy[k] is the element whose turn pushed
\* x[k] (cBy, tBy alike); ran is the set of elements the cascade ran on.
Collect(doc) ==
    LET each == [i \in 1..Len(doc) |-> LoopBody(doc, i)]
        all == ThenAll([i \in 1..Len(doc) |-> each[i].p])
    IN [x |-> all.x, c |-> all.c, t |-> all.t, threw |-> all.threw,
        xBy |-> Flatten([i \in 1..Len(doc) |-> [k \in 1..Len(each[i].p.x) |-> i]]),
        cBy |-> Flatten([i \in 1..Len(doc) |-> [k \in 1..Len(each[i].p.c) |-> i]]),
        tBy |-> Flatten([i \in 1..Len(doc) |-> [k \in 1..Len(each[i].p.t) |-> i]]),
        ran |-> {i \in 1..Len(doc) : each[i].ran}]

\* Array.from(new Set(xs)): the strings of xs, each at its first place
RECURSIVE Dedupe(_, _)
Dedupe(xs, seen) ==
    IF xs = <<>> THEN <<>>
    ELSE IF Head(xs) \in seen THEN Dedupe(Tail(xs), seen)
    ELSE <<Head(xs)>> \o Dedupe(Tail(xs), seen \cup {Head(xs)})

\* a plausible slip: the array is passed on as it is, without the Set
ArrayFromSetKeepsAll(xs) == xs

ArrayFromSet(xs) == Dedupe(xs, {})

RenderAll(ts) == [k \in 1..Len(ts) |-> Render(ts[k])]

\* a plausible slip: the arrays live outside the call and keep what the
\* call before pushed
NewArraysKept(shown) ==
    IF shown = None THEN [x |-> <<>>, c |-> <<>>, t |-> <<>>]
    ELSE [x |-> shown[1].xpath, c |-> shown[1].css, t |-> <<>>]

\* a plausible slip: the CSS array lives outside the call
NewArraysKeepCss(shown) ==
    IF shown = None THEN [x |-> <<>>, c |-> <<>>, t |-> <<>>]
    ELSE [x |-> <<>>, c |-> shown[1].css, t |-> <<>>]

\* const xpaths = [], cssSelectors = [], dataTestIdSelectors = []: the three
\* arrays are made anew inside every call, whatever result set is shown
NewArrays(shown) == [x |-> <<>>, c |-> <<>>, t |-> <<>>]

\* a plausible slip: the test-id list is passed on without the fallback
ResultSetNoSentinel(arrays, acc) ==
    [xpath |-> ArrayFromSet(arrays.x \o RenderAll(acc.x)),
     css |-> ArrayFromSet(arrays.c \o RenderAll(acc.c)),
     testIds |-> ArrayFromSet(arrays.t \o RenderAll(acc.t))]

\* the argument of setSelectors, from the arrays as made and the pushes of
\* the loop
ResultSet(arrays, acc) ==
    LET xpaths == arrays.x \o RenderAll(acc.x)
        cssSelectors == arrays.c \o RenderAll(acc.c)
        dataTestIdSelectors == arrays.t \o RenderAll(acc.t)
    IN [xpath |-> ArrayFromSet(xpaths),
        css |-> ArrayFromSet(cssSelectors),
        testIds |-> ArrayFromSet(IF Len(dataTestIdSelectors) # 0
                                 THEN dataTestIdSelectors ELSE <<Sentinel>>)]

\* What the try block computes on a markup before setSelectors: the parsed
\* document and the pushes of the loop.
Synthesize(markup) ==
    LET doc == parseFromString(markup)
    IN [doc |-> doc, acc |-> Collect(doc)]

\* Synthesize tabulated over the markups (@@ has the table held as values
\* computed once, not as an expression evaluated at every use)
SynthesizeAll ==
    [m \in Markups \cup MarkupsShapes \cup MarkupsForms \cup MarkupsFresh |->
        Synthesize(m)] @@ <<>>

\* ------------------------------------------------------------ XPathGenerator
ToastEmpty == "Please enter some HTML first"
ToastSuccess == "Advanced selectors generated successfully!"
ToastFailed == "Failed to analyze HTML. Please check your input."

\* onChange of the textarea
setHtml(m) ==
    /\ html' = m
    /\ UNCHANGED <<selectors, toast, parsed, genHtml, probe, cssEscape>>

\* a plausible slip: !html, without the trim
IsBlankNoTrim(markup) == markup = <<>>

\* !html.trim()
IsBlank(markup) == trimMarkup(markup) = <<>>

\* The elements at which the loop calls CSS.escape: those the cascade runs
\* on that carry a non-empty id.  CSS.escape is a function of the host; on a
\* host without it the call raises a TypeError, which nothing inside the
\* loop catches.
CssEscapeCalls(run) ==
    {i \in run.acc.ran : Truthy(getAttribute(run.doc[i], "id"))}

\* the try block raises before it reaches setSelectors
Raises(run) == run.acc.threw \/ (~cssEscape /\ CssEscapeCalls(run) # {})

\* what the arrays hold when CSS.escape raises: the pushes of the elements
\* before the one that calls it, that element's test-id pushes and its id
\* XPath
PushedBeforeRaise(run) ==
    LET f == CHOOSE i \in CssEscapeCalls(run) : \A j \in CssEscapeCalls(run) : i <= j
        keep(xs, by) == Flatten([k \in 1..Len(xs) |-> IF by[k] < f THEN <<xs[k]>> ELSE <<>>])
        own == Then(TestIdRule(run.doc[f]), IdRule(run.doc[f]))
    IN [x |-> keep(run.acc.x, run.acc.xBy) \o own.x,
        c |-> keep(run.acc.c, run.acc.cBy) \o own.c,
        t |-> keep(run.acc.t, run.acc.tBy) \o own.t]

\* a plausible slip: the catch block shows what was collected so far
AfterCatchShowsPartial(shown, run) ==
    IF CssEscapeCalls(run) = {} THEN shown
    ELSE Some(ResultSet(NewArrays(shown), PushedBeforeRaise(run)))

\* the selectors state after the catch block: console.error and toast.error
\* only, setSelectors is not called
AfterCatch(shown, run) == shown

\* onClick of "Generate Selectors", the probe apart
Generate ==
    /\ IF IsBlank(html)
       THEN /\ toast' = ToastEmpty
            /\ parsed' = FALSE
            /\ UNCHANGED <<html, selectors, genHtml>>
       ELSE LET run == SynthesizeAll[html]
            IN /\ parsed' = TRUE
               /\ IF Raises(run)
                  THEN /\ toast' = ToastFailed
                       /\ selectors' = AfterCatch(selectors, run)
                       /\ UNCHANGED genHtml
                  ELSE /\ selectors' = Some(ResultSet(NewArrays(selectors), run.acc))
                       /\ genHtml' = Some(html)
                       /\ toast' = ToastSuccess
               /\ UNCHANGED html
    /\ UNCHANGED cssEscape

generateSelectors == Generate /\ UNCHANGED probe

\* ----------------------------------------------------------- JsonFormatter
\* JSON.parse on texts of digits, brackets, commas and white space.  A value
\* is [t |-> "num", n |-> n] or [t |-> "arr", items |-> <<values>>].
JsonWhitespace == {" ", "\n", "\t", "\r"}

RECURSIVE SkipWs(_, _)
SkipWs(s, i) == IF i <= Len(s) /\ s[i] \in JsonWhitespace THEN SkipWs(s, i + 1) ELSE i

RECURSIVE DigitRun(_, _)
DigitRun(s, i) == IF i <= Len(s) /\ s[i] \in Digits THEN DigitRun(s, i + 1) ELSE i

DigitVal(c) == CHOOSE n \in 0..9 : ToString(n) = c

RECURSIVE DecimalValue(_, _)
DecimalValue(ds, acc) ==
    IF ds = <<>> THEN acc ELSE DecimalValue(Tail(ds), acc * 10 + DigitVal(Head(ds)))

NoValue == [ok |-> FALSE, next |-> 0, value |-> [t |-> "none"]]

\* the value that starts at place i (white space before it skipped) and the
\* place after it; the items of an array are read by ParseItems
RECURSIVE ParseValue(_, _)
RECURSIVE ParseItems(_, _, _)
ParseValue(s, i) ==
    LET j == SkipWs(s, i)
    IN IF j > Len(s) THEN NoValue
       ELSE IF s[j] \in Digits
       THEN LET e == DigitRun(s, j)
            IN IF s[j] = "0" /\ e > j + 1 THEN NoValue
               ELSE [ok |-> TRUE, next |-> e,
                     value |-> [t |-> "num", n |-> DecimalValue(SubSeq(s, j, e - 1), 0)]]
       ELSE IF s[j] = "["
       THEN LET k == SkipWs(s, j + 1)
            IN IF k <= Len(s) /\ s[k] = "]"
               THEN [ok |-> TRUE, next |-> k + 1, value |-> [t |-> "arr", items |-> <<>>]]
               ELSE ParseItems(s, j + 1, <<>>)
       ELSE NoValue

ParseItems(s, i, items) ==
    LET v == ParseValue(s, i)
        k == SkipWs(s, v.next)
    IN IF ~v.ok \/ k > Len(s) THEN NoValue
       ELSE IF s[k] = ","
       THEN ParseItems(s, k + 1, Append(items, v.value))
       ELSE IF s[k] = "]"
       THEN [ok |-> TRUE, next |-> k + 1,
             value |-> [t |-> "arr", items |-> Append(items, v.value)]]
       ELSE NoValue

\* JSON.parse(text): ok is FALSE where it throws a SyntaxError
JSONparse(text) ==
    LET v == ParseValue(text, 1)
    IN IF v.ok /\ SkipWs(text, v.next) = Len(text) + 1 THEN v ELSE NoValue

\* the decimal digits of n
RECURSIVE DecimalDigits(_)
DecimalDigits(n) ==
    IF n < 10 THEN <<ToString(n)>>
    ELSE Append(DecimalDigits(n \div 10), ToString(n % 10))

Spaces(n) == [k \in 1..n |-> SP]

\* JSON.stringify(value, null, 2), the value standing at the given depth
RECURSIVE JSONstringify(_, _)
JSONstringify(value, depth) ==
    IF value.t = "num" THEN DecimalDigits(value.n)
    ELSE IF value.items = <<>> THEN <<"[", "]">>
    ELSE <<"[">>
         \o Flatten([k \in 1..Len(value.items) |->
                (IF k = 1 THEN <<"\n">> ELSE <<",", "\n">>)
                    \o Spaces(2 * (depth + 1))
                    \o JSONstringify(value.items[k], depth + 1)])
         \o <<"\n">> \o Spaces(2 * depth) \o <<"]">>

\* The texts typed into the input textarea.
JsonAlphabet == {"[", "]", "1", SP}

\* the longest text typed
MaxJsonLen == 3

JsonTexts == UNION {[1..n -> JsonAlphabet] : n \in 0..MaxJsonLen}

\* Papa.unparse and Papa.parse are the library's; of what they return the
\* page keeps a text, taken here as any of these, or the call raises.
CsvTexts == {<<>>, <<"1">>}
CsvAsJsonTexts == {<<"[", "]">>}

\* a plausible slip: the edit does not reset isValid
setInputKeepsIsValid(text) ==
    /\ input' = text
    /\ checked' = FALSE
    /\ UNCHANGED <<output, isValid>>

\* the textarea's onChange
setInput(text) ==
    /\ input' = text
    /\ isValid' = None
    /\ checked' = FALSE
    /\ UNCHANGED output

\* !input.trim()
InputIsBlank == Trim(input) = <<>>

validateJson ==
    /\ IF InputIsBlank THEN UNCHANGED isValid
       ELSE isValid' = Some(JSONparse(input).ok)
    /\ checked' = TRUE
    /\ UNCHANGED <<input, output>>

beautifyJson ==
    /\ IF InputIsBlank THEN UNCHANGED <<isValid, output>>
       ELSE LET tree == JSONparse(input)
            IN IF tree.ok
               THEN /\ output' = JSONstringify(tree.value, 0)
                    /\ isValid' = Some(TRUE)
               ELSE /\ isValid' = Some(FALSE)
                    /\ UNCHANGED output
    /\ checked' = TRUE
    /\ UNCHANGED input

jsonToCsv ==
    /\ IF InputIsBlank \/ ~JSONparse(input).ok THEN UNCHANGED output
       ELSE \E raises \in BOOLEAN, csv \in CsvTexts :
                IF raises THEN UNCHANGED output ELSE output' = csv
    /\ UNCHANGED <<input, isValid, checked>>

csvToJson ==
    /\ IF InputIsBlank THEN UNCHANGED output
       ELSE \E json \in CsvAsJsonTexts : output' = json
    /\ UNCHANGED <<input, isValid, checked>>

\* the Copy button is rendered when output is not empty
copyOutput ==
    /\ output # <<>>
    /\ UNCHANGED <<input, output, isValid, checked>>

\* ------------------------------------------------------------ log analyzer
\* Characters outside ASCII that the patterns name, one token each.
CheckMark == "U+2713"
CrossMark == "U+2717"
SkipMark == "U+2298"
Bullet == "U+25CF"
NL == "\n"

Uppers == <<"A","B","C","D","E","F","G","H","I","J","K","L","M",
            "N","O","P","Q","R","S","T","U","V","W","X","Y","Z">>
Lowers == <<"a","b","c","d","e","f","g","h","i","j","k","l","m",
            "n","o","p","q","r","s","t","u","v","w","x","y","z">>

toLowerCase(s) ==
    [i \in 1..Len(s) |->
        IF \E k \in 1..Len(Uppers) : Uppers[k] = s[i]
        THEN Lowers[CHOOSE k \in 1..Len(Uppers) : Uppers[k] = s[i]]
        ELSE s[i]]

includes(s, w) == \E i \in 1..(Len(s) - Len(w) + 1) : SubSeq(s, i, i + Len(w) - 1) = w

\* String.prototype.split on a one-character separator
RECURSIVE splitFrom(_, _, _)
splitFrom(s, sep, cur) ==
    IF s = <<>> THEN <<cur>>
    ELSE IF Head(s) = sep THEN <<cur>> \o splitFrom(Tail(s), sep, <<>>)
    ELSE splitFrom(Tail(s), sep, Append(cur, Head(s)))

split(s, sep) == splitFrom(s, sep, <<>>)

RECURSIVE join(_, _)
join(parts, sep) ==
    IF parts = <<>> THEN <<>>
    ELSE IF Len(parts) = 1 THEN parts[1]
    ELSE Head(parts) \o <<sep>> \o join(Tail(parts), sep)

\* detectFramework: the first rule, in order, one of whose words the lowered
\* content includes
FrameworkRules == <<
    [name |-> "Playwright",
     words |-> {<<"p","l","a","y","w","r","i","g","h","t">>,
               <<"@","p","l","a","y","w","r","i","g","h","t","/","t","e","s","t">>}],
    [name |-> "Cypress",
     words |-> {<<"c","y","p","r","e","s","s">>,
               <<"c","y",".">>}],
    [name |-> "Selenium",
     words |-> {<<"s","e","l","e","n","i","u","m">>,
               <<"w","e","b","d","r","i","v","e","r">>}],
    [name |-> "Jest",
     words |-> {<<"j","e","s","t">>,
               <<Bullet,SP>>}],
    [name |-> "Mocha",
     words |-> {<<"m","o","c","h","a">>,
               <<"d","e","s","c","r","i","b","e","(">>}],
    [name |-> "Pytest",
     words |-> {<<"p","y","t","e","s","t">>,
               <<"t","e","s","t",SP,"s","e","s","s","i","o","n",SP,"s","t","a","r","t","s">>}],
    [name |-> "JUnit",
     words |-> {<<"j","u","n","i","t">>,
               <<"<","t","e","s","t","s","u","i","t","e">>}],
    [name |-> "TestNG",
     words |-> {<<"t","e","s","t","n","g">>}],
    [name |-> "RSpec",
     words |-> {<<"r","s","p","e","c">>,
               <<"f","i","n","i","s","h","e","d",SP,"i","n">>}],
    [name |-> "Postman/Newman",
     words |-> {<<"p","o","s","t","m","a","n">>,
               <<"n","e","w","m","a","n">>}]>>


detectFramework(content) ==
    LET lower == toLowerCase(content)
        hits == {k \in 1..Len(FrameworkRules) :
                    \E w \in FrameworkRules[k].words : includes(lower, w)}
    IN IF hits # {} THEN FrameworkRules[CHOOSE k \in hits : \A h \in hits : k <= h].name
       ELSE IF includes(lower, <<"e","r","r","o","r",":">>) /\ includes(lower, <<"a","t",SP>>) /\ includes(lower, <<".","j","s",":">>)
       THEN "Node.js"
       ELSE IF includes(lower, <<"t","r","a","c","e","b","a","c","k">>) /\ includes(lower, <<"f","i","l","e",SP,DQ>>)
       THEN "Python"
       ELSE IF includes(lower, <<"e","x","c","e","p","t","i","o","n",SP,"i","n",SP,"t","h","r","e","a","d">>) \/ includes(lower, <<"a","t",SP,"j","a","v","a",".">>)
       THEN "Java"
       ELSE "Unknown"

\* the alternatives of the three case-insensitive line patterns, lowered

PassPattern ==
    {<<"p","a","s","s">>,
     <<CheckMark>>,
     <<"p","a","s","s","e","d">>,
     <<"s","u","c","c","e","s","s">>,
     <<"[","p","a","s","s","]">>,
     <<"o","k">>,
     <<"p","a","s","s","e","d">>}

FailPattern ==
    {<<"f","a","i","l">>,
     <<CrossMark>>,
     <<"f","a","i","l","e","d">>,
     <<"e","r","r","o","r">>,
     <<"[","f","a","i","l","]">>,
     <<"[","e","r","r","o","r","]">>,
     <<"f","a","i","l","e","d">>,
     <<"a","s","s","e","r","t","i","o","n","e","r","r","o","r">>,
     <<"e","x","c","e","p","t","i","o","n">>}

SkipPattern ==
    {<<"s","k","i","p">>,
     <<SkipMark>>,
     <<"s","k","i","p","p","e","d">>,
     <<"p","e","n","d","i","n","g">>,
     <<"[","s","k","i","p","]">>,
     <<"s","k","i","p","p","e","d">>}


\* the log lines tried
LineText ==
    [pass |-> <<"P","A","S","S",SP,"o","n","e">>,
     fail |-> <<"F","A","I","L",SP,"c","y",".","g","o">>,
     blank |-> <<SP,SP>>]

\* the lines a log is made of, and the one log that is only white space
LineNames == {"pass", "fail"}
BlankLog == <<"blank">>

\* the longest log tried, in lines
MaxLogLines == 1

Logs == UNION {[1..n -> LineNames] : n \in 0..MaxLogLines} \cup {BlankLog}

\* the text of a log: its lines joined by newlines
LogText(log) == join([i \in 1..Len(log) |-> LineText[log[i]]], NL)

RegexTest(pattern, line) == \E w \in pattern : includes(toLowerCase(line), w)

\* the counters and the framework that analyzeLog hands to setAnalysis
Analyze(content) ==
    LET lines == split(content, NL)
        count(pattern) == Cardinality({i \in 1..Len(lines) : RegexTest(pattern, lines[i])})
        passed == count(PassPattern)
        failed == count(FailPattern)
        skipped == count(SkipPattern)
        totalTests == passed + failed + skipped
    IN [totalTests |-> IF totalTests # 0 THEN totalTests
                       ELSE Cardinality({i \in 1..Len(lines) : Trim(lines[i]) # <<>>}),
        passed |-> passed,
        failed |-> failed,
        skipped |-> skipped,
        framework |-> detectFramework(content)]

AnalyzeAll == [log \in Logs |-> Analyze(LogText(log))] @@ <<>>

LogIsBlank(log) == Trim(LogText(log)) = <<>>

\* the most requests and responses under way at once
MaxInFlight == 2

UnderWay == BagCardinality(requests) + BagCardinality(responses)

\* supabase.functions.invoke('analyze-log', {body: {logContent, detectedFramework}})
invoke(logContent, framework) ==
    requests' = requests (+) SetToBag({[logContent |-> logContent,
                                        detectedFramework |-> framework]})

\* getAIInsights up to its await (toasts are shown, not held, and are left out)
getAIInsights(logContent, framework) ==
    IF LogIsBlank(logContent)
    THEN UNCHANGED <<isLoadingAI, requests>>
    ELSE /\ isLoadingAI' = TRUE
         /\ invoke(logContent, framework)

\* the textarea's onChange, and a file read by handleFileUpload
setLogInput(log) ==
    /\ logInput' = log
    /\ UNCHANGED <<analysis, aiInsights, isAnalyzing, isLoadingAI,
                   requests, responses, relayed, analysisOf>>

\* analyzeLog up to the await of getAIInsights; the button is disabled while
\* isAnalyzing
analyzeLog ==
    /\ ~isAnalyzing
    /\ IF LogIsBlank(logInput)
       THEN UNCHANGED <<analysis, isAnalyzing, isLoadingAI, requests, analysisOf>>
       ELSE LET result == AnalyzeAll[logInput]
            IN /\ analysis' = Some(result)
               /\ analysisOf' = Some(logInput)
               /\ isAnalyzing' = FALSE
               /\ IF result.failed > 0
                  THEN /\ UnderWay < MaxInFlight
                       /\ getAIInsights(logInput, result.framework)
                  ELSE UNCHANGED <<isLoadingAI, requests>>
    /\ UNCHANGED <<logInput, aiInsights, responses, relayed>>

\* the Get AI Insights button: shown when analysis.failed > 0 and no
\* insights are held, disabled while isLoadingAI; it calls getAIInsights()
clickGetInsights ==
    /\ analysis # None
    /\ analysis[1].failed > 0
    /\ aiInsights = None
    /\ ~isLoadingAI
    /\ UnderWay < MaxInFlight
    /\ getAIInsights(logInput, analysis[1].framework)
    /\ UNCHANGED <<logInput, analysis, aiInsights, isAnalyzing, responses, relayed,
                   analysisOf>>

GatewayStatuses == {200, 429, 402, 500}

\* what the completion of the gateway says about the log it was given, or
\* nothing at all
InsightsAbout(logContent) == {Some(logContent), None}

Respond(request, response) ==
    /\ requests' = requests (-) SetToBag({request})
    /\ responses' = responses (+) SetToBag({response})

\* the analyze-log function serving one request: without its key it
\* answers 500; otherwise it posts the log content to the AI gateway and
\* answers with the insights, or with 429, 402 or 500
serve ==
    /\ \E request \in BagToSet(requests) :
        \E keyConfigured \in BOOLEAN, status \in GatewayStatuses :
            IF ~keyConfigured
            THEN /\ Respond(request, [status |-> 500, insights |-> None])
                 /\ UNCHANGED relayed
            ELSE /\ relayed' = TRUE
                 /\ IF status = 200
                    THEN \E insights \in InsightsAbout(request.logContent) :
                            Respond(request, [status |-> 200, insights |-> insights])
                    ELSE Respond(request, [status |-> status, insights |-> None])
    /\ UNCHANGED <<logInput, analysis, aiInsights, isAnalyzing, isLoadingAI, analysisOf>>

\* getAIInsights from its await on, for one response
completeInsights ==
    /\ \E response \in BagToSet(responses) :
        /\ responses' = responses (-) SetToBag({response})
        /\ IF response.status = 200 /\ response.insights # None
           THEN aiInsights' = response.insights
           ELSE UNCHANGED aiInsights
    /\ isLoadingAI' = FALSE
    /\ UNCHANGED <<logInput, analysis, isAnalyzing, requests, relayed, analysisOf>>

LogInit ==
    /\ logInput = <<>>
    /\ analysis = None
    /\ aiInsights = None
    /\ isAnalyzing = FALSE
    /\ isLoadingAI = FALSE
    /\ requests = EmptyBag
    /\ responses = EmptyBag
    /\ relayed = FALSE
    /\ analysisOf = None

XPathInit ==
    /\ html = <<>>
    /\ selectors = None
    /\ toast = ""
    /\ parsed = FALSE
    /\ genHtml = None
    /\ probe = None
    /\ cssEscape \in BOOLEAN

EscInit ==
    /\ escIn = None
    /\ escOut = None

CssInit ==
    /\ cssIn = None
    /\ cssOut = None

JsonInit ==
    /\ input = <<>>
    /\ output = <<>>
    /\ isValid = None
    /\ checked = FALSE

ShotInit ==
    /\ beforeImage = None
    /\ afterImage = None
    /\ diffImage = None
    /\ diffPercentage = None
    /\ shotToast = None
    /\ readers = {}
    /\ compares = <<>>

Init == XPathInit /\ EscInit /\ LogInit /\ CssInit /\ JsonInit /\ ShotInit

EditHtml == \E m \in Markups : setHtml(m) /\ UNCHANGED <<escVars, logVars, cssVars, jsonVars, shotVars>>

ClickGenerate == generateSelectors /\ UNCHANGED <<escVars, logVars, cssVars, jsonVars, shotVars>>

Next == EditHtml \/ ClickGenerate

Spec == Init /\ [][Next]_vars

\* ----- the same component, with the first successful call remembered -----
\* the longest markup typed under SpecDet, in snippets
MaxPiecesDet == 1

MarkupsDet == UNION {[1..n -> Snippets] : n \in 0..MaxPiecesDet} \cup {<<"WS">>}

EditHtmlDet == \E m \in MarkupsDet : setHtml(m) /\ UNCHANGED <<escVars, logVars, cssVars, jsonVars, shotVars>>

ClickGenerateDet ==
    /\ Generate
    /\ probe' =
        IF toast' # ToastSuccess THEN probe
        ELSE IF probe = None
             THEN Some([html |-> html, result |-> selectors'[1], again |-> FALSE])
        ELSE IF html = probe[1].html /\ genHtml[1] # html
             THEN Some([probe[1] EXCEPT !.again = TRUE])
        ELSE probe
    /\ UNCHANGED <<escVars, logVars, cssVars, jsonVars, shotVars>>

NextDet == EditHtmlDet \/ ClickGenerateDet

SpecDet == Init /\ [][NextDet]_vars

\* ----------------- the same component, on the second set of snippets -----
EditHtmlShapes == \E m \in MarkupsShapes : setHtml(m) /\ UNCHANGED <<escVars, logVars, cssVars, jsonVars, shotVars>>

ClickGenerateShapes == generateSelectors /\ UNCHANGED <<escVars, logVars, cssVars, jsonVars, shotVars>>

NextShapes == EditHtmlShapes \/ ClickGenerateShapes

SpecShapes == Init /\ [][NextShapes]_vars

\* ------------------ the same component, on the third set of snippets -----
EditHtmlForms == \E m \in MarkupsForms : setHtml(m) /\ UNCHANGED <<escVars, logVars, cssVars, jsonVars, shotVars>>

ClickGenerateForms == generateSelectors /\ UNCHANGED <<escVars, logVars, cssVars, jsonVars, shotVars>>

NextForms == EditHtmlForms \/ ClickGenerateForms

SpecForms == Init /\ [][NextForms]_vars

\* ------- the same component, calls that succeed, fail and are rejected -----
EditHtmlFresh == \E m \in MarkupsFresh : setHtml(m) /\ UNCHANGED <<escVars, logVars, cssVars, jsonVars, shotVars>>

NextFresh == EditHtmlFresh \/ ClickGenerateDet

SpecFresh == Init /\ [][NextFresh]_vars

\* -------------------------------------------------- escapeXpathText, alone
EscAlphabet == {"a", SQ, DQ}

\* the longest argument tried
MaxEscLen == 4

HelloWorld == <<"H","e","l","l","o",SP,DQ,"W","o","r","l","d",DQ>>

EscInputs == UNION {[1..n -> EscAlphabet] : n \in 0..MaxEscLen} \cup {HelloWorld}

CallEscape ==
    /\ \E s \in EscInputs :
        /\ escIn' = Some(s)
        /\ escOut' = Some(escapeXpathText(s))
    /\ UNCHANGED <<xpathVars, logVars, cssVars, jsonVars, shotVars>>

NextEsc == CallEscape

SpecEsc == Init /\ [][NextEsc]_vars

\* ---------------------------------------------------- escapeCssAttr, alone
CssAlphabet == {"a", BS, DQ}

\* the longest argument tried
MaxCssLen == 4

CssInputs == UNION {[1..n -> CssAlphabet] : n \in 0..MaxCssLen}

CallEscapeCss ==
    /\ \E val \in CssInputs :
        /\ cssIn' = Some(val)
        /\ cssOut' = Some(escapeCssAttr(val))
    /\ UNCHANGED <<xpathVars, escVars, logVars, jsonVars, shotVars>>

NextCss == CallEscapeCss

SpecCss == Init /\ [][NextCss]_vars

\* ------------------------------------------------------ JsonFormatter, alone
EditInput == (\E text \in JsonTexts : text # input /\ setInput(text)) /\ UNCHANGED <<xpathVars, escVars, logVars, cssVars, shotVars>>

ClickValidate == validateJson /\ UNCHANGED <<xpathVars, escVars, logVars, cssVars, shotVars>>

ClickBeautify == beautifyJson /\ UNCHANGED <<xpathVars, escVars, logVars, cssVars, shotVars>>

ClickJsonToCsv == jsonToCsv /\ UNCHANGED <<xpathVars, escVars, logVars, cssVars, shotVars>>

ClickCsvToJson == csvToJson /\ UNCHANGED <<xpathVars, escVars, logVars, cssVars, shotVars>>

ClickCopy == copyOutput /\ UNCHANGED <<xpathVars, escVars, logVars, cssVars, shotVars>>

NextJson ==
    EditInput \/ ClickValidate \/ ClickBeautify \/ ClickJsonToCsv \/ ClickCsvToJson
        \/ ClickCopy

SpecJson == Init /\ [][NextJson]_vars

\* ------------------------------------------------------- log analyzer, alone
EditLog == (\E log \in Logs : setLogInput(log)) /\ UNCHANGED <<xpathVars, escVars, cssVars, jsonVars, shotVars>>

ClickAnalyze == analyzeLog /\ UNCHANGED <<xpathVars, escVars, cssVars, jsonVars, shotVars>>

ClickGetInsights == clickGetInsights /\ UNCHANGED <<xpathVars, escVars, cssVars, jsonVars, shotVars>>

Serve == serve /\ UNCHANGED <<xpathVars, escVars, cssVars, jsonVars, shotVars>>

Complete == completeInsights /\ UNCHANGED <<xpathVars, escVars, cssVars, jsonVars, shotVars>>

NextLog == EditLog \/ ClickAnalyze \/ ClickGetInsights \/ Serve \/ Complete

SpecLog == Init /\ [][NextLog]_vars


\* =================================================================== claims
\* the displayed result set, the run it came from and that run's document
Shown == selectors # None
Sel == selectors[1]
Run == SynthesizeAll[genHtml[1]]
Doc == Run.doc

NoDuplicates(out) == \A i, j \in 1..Len(out) : i # j => out[i] # out[j]

FirstPush(raw, str) == CHOOSE k \in 1..Len(raw) : raw[k] = str /\ \A h \in 1..(k - 1) : raw[h] # str

\* out holds no string twice, and two of its strings that were pushed stand
\* in the order of their first pushes
FirstPushOrder(out, raw) ==
    /\ NoDuplicates(out)
    /\ \A i, j \in 1..Len(out) :
        (i < j /\ out[i] \in Range(raw) /\ out[j] \in Range(raw))
            => FirstPush(raw, out[i]) < FirstPush(raw, out[j])

\* C1: after a successful generateSelectors call each of xpath, css and
\* testIds holds no string twice, and its strings stand in the order in
\* which the traversal first pushed them.
C1_OrderedUnique ==
    Shown =>
        /\ FirstPushOrder(Sel.xpath, RenderAll(Run.acc.x))
        /\ FirstPushOrder(Sel.css, RenderAll(Run.acc.c))
        /\ FirstPushOrder(Sel.testIds, RenderAll(Run.acc.t))

\* a result set is shown whose run pushed some string twice onto each array
C1_Witness ==
    /\ Shown
    /\ Len(Sel.xpath) > 1 /\ Len(Run.acc.x) > Len(Sel.xpath)
    /\ Len(Sel.css) > 1 /\ Len(Run.acc.c) > Len(Sel.css)
    /\ Len(Sel.testIds) > 1 /\ Len(Run.acc.t) > Len(Sel.testIds)

\* C2: determinism.  A successful call yields the result set that the first
\* successful call on the same markup yielded, whatever was generated and
\* displayed in between.
C2_Deterministic ==
    (Shown /\ probe # None /\ genHtml[1] = probe[1].html) => Sel = probe[1].result

\* the markup of the first successful call was run again while the result
\* set of another markup was displayed, and its result set is shown
C2_Witness ==
    /\ Shown /\ probe # None
    /\ probe[1].again
    /\ genHtml[1] = probe[1].html
    /\ Len(Sel.xpath) > 0

OnlyWhitespace(markup) == \A i \in 1..Len(markup) : markup[i] = "WS"

\* C3: a call on an empty or whitespace-only markup reports the validation
\* failure, does not reach the parser and leaves the selectors state (and
\* the markup it came from) as it was.
C3_BlankRejected ==
    [][(OnlyWhitespace(html) /\ ClickGenerate)
        => (/\ toast' = ToastEmpty
            /\ ~parsed'
            /\ selectors' = selectors
            /\ genHtml' = genHtml)]_vars

\* the validation failure was reported for a non-empty markup of whitespace
\* while a result set was shown
C3_Witness ==
    /\ toast = ToastEmpty /\ ~parsed
    /\ html # <<>> /\ OnlyWhitespace(html)
    /\ Shown

\* an inspected element: among the first InspectLimit and not structural
StructuralTags == {"html", "head", "body", "script", "style", "meta", "title"}
Inspected(doc) == {i \in 1..Len(doc) : i <= 100 /\ doc[i].tag \notin StructuralTags}

HasValue(el, a) == a \in DOMAIN el.attrs /\ el.attrs[a] # <<>>

TestAttrs == {"data-testid", "data-cy", "data-qa", "data-test"}

CarriesTestId(doc) == \E i \in Inspected(doc) : \E a \in TestAttrs : HasValue(doc[i], a)

\* C4: testIds is never empty; it is the one sentinel exactly when no
\* inspected element carries a non-empty data-testid, data-cy, data-qa or
\* data-test, and holds no sentinel otherwise.
C4_Sentinel ==
    Shown =>
        /\ Len(Sel.testIds) > 0
        /\ (Sel.testIds = <<Sentinel>>) <=> ~CarriesTestId(Doc)
        /\ CarriesTestId(Doc) => Sentinel \notin Range(Sel.testIds)

\* the sentinel is shown for a document that does hold a test-id attribute,
\* on an element that is not inspected
C4_Witness ==
    /\ Shown
    /\ Sel.testIds = <<Sentinel>>
    /\ \E i \in 1..Len(Doc) : \E a \in TestAttrs : HasValue(Doc[i], a)

\* C5: in a document of more than 100 elements the cascade runs on every
\* non-structural element among the first 100 and on no other, and every
\* string of the three sequences was pushed for one of the first 100.
C5_FirstHundred ==
    (Shown /\ Len(Doc) > 100) =>
        /\ Run.acc.ran = Inspected(Doc)
        /\ \A k \in 1..Len(Run.acc.xBy) : Run.acc.xBy[k] <= 100
        /\ \A k \in 1..Len(Run.acc.cBy) : Run.acc.cBy[k] <= 100
        /\ \A k \in 1..Len(Run.acc.tBy) : Run.acc.tBy[k] <= 100
        /\ Range(Sel.xpath) = {Render(Run.acc.x[k]) : k \in 1..Len(Run.acc.x)}
        /\ Range(Sel.css) = {Render(Run.acc.c[k]) : k \in 1..Len(Run.acc.c)}
        /\ Run.acc.t # <<>> =>
            Range(Sel.testIds) = {Render(Run.acc.t[k]) : k \in 1..Len(Run.acc.t)}

\* a result set is shown for a document whose 100th element pushed
\* candidates and whose 101st, with an id, pushed none
C5_Witness ==
    /\ Shown /\ Len(Doc) > 100
    /\ 100 \in Range(Run.acc.xBy)
    /\ Doc[101].tag \notin StructuralTags
    /\ HasValue(Doc[101], "id")
    /\ 101 \notin Run.acc.ran


HasStructuralToken(push) == Range(push) \cap StructuralTags # {}

AllPushes == Range(Run.acc.x) \cup Range(Run.acc.c) \cup Range(Run.acc.t)

\* C6 as stated: the cascade runs on no structural element, and no pushed
\* selector of any of the three sequences holds html, head, body, script,
\* style, meta or title as a tag token.
C6_NoStructuralToken ==
    Shown =>
        /\ \A i \in Run.acc.ran : Doc[i].tag \notin StructuralTags
        /\ \A push \in AllPushes : ~HasStructuralToken(push)

\* C6 as amended: the cascade runs on no structural element; no css or
\* testIds selector holds a structural tag token; an xpath that holds one is
\* the indexed path of a form control or link, holds only html and body, and
\* ends with the step of that element.
C6_StructuralSkipped ==
    Shown =>
        /\ \A i \in Run.acc.ran : Doc[i].tag \notin StructuralTags
        /\ \A push \in Range(Run.acc.c) \cup Range(Run.acc.t) : ~HasStructuralToken(push)
        /\ \A k \in 1..Len(Run.acc.x) :
            LET push == Run.acc.x[k]
                el == Doc[Run.acc.xBy[k]]
            IN HasStructuralToken(push) =>
                /\ Range(push) \cap StructuralTags \subseteq {"html", "body"}
                /\ Head(push) = "/"
                /\ el.tag \in {"input", "button", "a", "select", "textarea"}
                /\ Len(push) >= 5
                /\ push[Len(push) - 3] = el.tag

\* a result set is shown for a document that holds, among its first 100
\* elements, a script with an id and a data-testid, and whose run pushed a
\* path through html and body
C6_Witness ==
    /\ Shown
    /\ \E i \in 1..Len(Doc) :
        /\ i <= 100 /\ Doc[i].tag = "script"
        /\ HasValue(Doc[i], "id") /\ HasValue(Doc[i], "data-testid")
    /\ \E push \in Range(Run.acc.x) : "html" \in Range(push) /\ "body" \in Range(push)

TestAttrOrder == <<"data-testid", "data-cy", "data-qa", "data-test">>

TestIdXPath(el, a) ==
    Render(<<"//", el.tag, "[@", a, "=">> \o escapeXpathText(el.attrs[a]) \o <<"]">>)

TestIdCss(el, a) ==
    Render(<<el.tag, "[", a, "=">> \o escapeCssAttr(el.attrs[a]) \o <<"]">>)

IsPrefix(pre, seq) == Len(pre) <= Len(seq) /\ SubSeq(seq, 1, Len(pre)) = pre

\* the positions of by that hold element i, in order
PushesOf(by, i) == SelectSeq([k \in 1..Len(by) |-> k], LAMBDA k : by[k] = i)

\* C7: every inspected element pushes, for each of data-testid, data-cy,
\* data-qa and data-test that has a non-empty value, in that order, the
\* XPath //T[@A=<escaped V>] and the selector T[A=<escaped V>], the latter
\* onto css and testIds; an absent or empty attribute pushes nothing.
C7_TestIdRule ==
    Shown =>
        \A i \in Inspected(Doc) :
            LET el == Doc[i]
                present == SelectSeq(TestAttrOrder, LAMBDA a : HasValue(el, a))
                mine == PushesOf(Run.acc.tBy, i)
            IN /\ \A n \in 1..Len(present) :
                    /\ TestIdXPath(el, present[n]) \in Range(Sel.xpath)
                    /\ TestIdCss(el, present[n]) \in Range(Sel.css)
                    /\ TestIdCss(el, present[n]) \in Range(Sel.testIds)
               /\ [n \in 1..Len(mine) |-> Render(Run.acc.t[mine[n]])]
                    = [n \in 1..Len(present) |-> TestIdCss(el, present[n])]
               /\ \A a \in TestAttrs : ~HasValue(el, a) =>
                    /\ \A k \in Range(PushesOf(Run.acc.xBy, i)) :
                        ~IsPrefix(<<"//", el.tag, "[@", a, "=">>, Run.acc.x[k])
                    /\ \A k \in Range(PushesOf(Run.acc.cBy, i)) :
                        ~IsPrefix(<<el.tag, "[", a, "=">>, Run.acc.c[k])

\* a result set is shown for a document with an inspected element that has
\* two test-id attributes with values, one of them with both quotes, an
\* empty one and an absent one
C7_Witness ==
    /\ Shown
    /\ \E i \in Inspected(Doc) :
        /\ HasValue(Doc[i], "data-testid")
        /\ HasValue(Doc[i], "data-test")
        /\ ~NotIn(Doc[i].attrs["data-test"], SQ) /\ ~NotIn(Doc[i].attrs["data-test"], DQ)
        /\ "data-cy" \in DOMAIN Doc[i].attrs /\ ~HasValue(Doc[i], "data-cy")
        /\ "data-qa" \notin DOMAIN Doc[i].attrs
        /\ TestIdCss(Doc[i], "data-test") \in Range(Sel.testIds)

LabelsWithText(doc, id) ==
    {l \in 1..Len(doc) :
        /\ doc[l].tag = "label"
        /\ "for" \in DOMAIN doc[l].attrs /\ doc[l].attrs["for"] = id
        /\ Trim(textContent(doc, l)) # <<>>}

LabelForXPath(doc, i, l) ==
    Render(<<"//", doc[i].tag, "[@id=//label[normalize-space(text())=">>
            \o escapeXpathText(NormalizeText(textContent(doc, l))) \o <<"]/@for]">>)

\* C8: for every inspected input, textarea or select with a non-empty id,
\* whenever the document holds a <label for=ID> with non-empty text, xpath
\* holds the @for back-reference expression built from such a label.
C8_LabelFor ==
    Shown =>
        \A i \in Inspected(Doc) :
            (Doc[i].tag \in {"input", "textarea", "select"} /\ HasValue(Doc[i], "id")
                /\ LabelsWithText(Doc, Doc[i].attrs["id"]) # {})
            => \E l \in LabelsWithText(Doc, Doc[i].attrs["id"]) :
                    LabelForXPath(Doc, i, l) \in Range(Sel.xpath)


\* the segments of s between the occurrences of c
RECURSIVE SplitAt(_, _, _)
SplitAt(s, c, seg) ==
    IF s = <<>> THEN <<seg>>
    ELSE IF Head(s) = c THEN <<seg>> \o SplitAt(Tail(s), c, <<>>)
    ELSE SplitAt(Tail(s), c, Append(seg, Head(s)))

\* the single-quoted segments with the double-quoted "'" between them
RECURSIVE Interleaved(_)
Interleaved(segs) ==
    IF Len(segs) = 1 THEN << <<SQ>> \o segs[1] \o <<SQ>> >>
    ELSE << <<SQ>> \o Head(segs) \o <<SQ>>, <<DQ, SQ, DQ>> >> \o Interleaved(Tail(segs))

RECURSIVE CommaJoined(_)
CommaJoined(args) ==
    IF Len(args) = 1 THEN args[1] ELSE Head(args) \o <<",">> \o CommaJoined(Tail(args))

\* An XPath literal read at position i of t: the characters up to the next
\* quote of the kind that opens it.
ReadLiteral(t, i) ==
    IF i > Len(t) \/ t[i] \notin {SQ, DQ} THEN [ok |-> FALSE, value |-> <<>>, next |-> i]
    ELSE LET ends == {j \in (i + 1)..Len(t) : t[j] = t[i]}
         IN IF ends = {} THEN [ok |-> FALSE, value |-> <<>>, next |-> i]
            ELSE LET j == CHOOSE e \in ends : \A h \in ends : e <= h
                 IN [ok |-> TRUE, value |-> SubSeq(t, i + 1, j - 1), next |-> j + 1]

\* the values of the arguments of concat( from position i on, up to the
\* closing parenthesis that ends t; <<>> when t is no such list
RECURSIVE ReadArgs(_, _, _)
ReadArgs(t, i, vals) ==
    LET lit == ReadLiteral(t, i)
    IN IF ~lit.ok \/ lit.next > Len(t) THEN None
       ELSE IF t[lit.next] = ")" /\ lit.next = Len(t) THEN Some(Append(vals, lit.value))
       ELSE IF t[lit.next] = "," THEN ReadArgs(t, lit.next + 1, Append(vals, lit.value))
       ELSE None

ConcatOpen == <<"c","o","n","c","a","t","(">>

\* the string an XPath processor takes the expression t to denote
XPathStringValue(t) ==
    IF t # <<>> /\ Head(t) \in {SQ, DQ}
    THEN LET lit == ReadLiteral(t, 1)
         IN IF lit.ok /\ lit.next = Len(t) + 1 THEN Some(lit.value) ELSE None
    ELSE IF IsPrefix(ConcatOpen, t)
    THEN LET args == ReadArgs(t, Len(ConcatOpen) + 1, <<>>)
         IN IF args = None THEN None ELSE Some(Flatten(args[1]))
    ELSE None

\* C9: escapeXpathText(s) is s in single quotes when s has no single quote,
\* else s in double quotes when s has no double quote, else concat( of the
\* single-quoted segments of s between its single quotes with "'" between
\* them ); in each case the expression denotes s.  Hello "World" gives
\* 'Hello "World"'.
C9_ThreeWay ==
    escOut # None =>
        LET s == escIn[1]
            out == escOut[1]
        IN /\ NotIn(s, SQ) => out = <<SQ>> \o s \o <<SQ>>
           /\ (~NotIn(s, SQ) /\ NotIn(s, DQ)) => out = <<DQ>> \o s \o <<DQ>>
           /\ (~NotIn(s, SQ) /\ ~NotIn(s, DQ)) =>
                out = ConcatOpen \o CommaJoined(Interleaved(SplitAt(s, SQ, <<>>))) \o <<")">>
           /\ XPathStringValue(out) = Some(s)
           /\ s = HelloWorld => Render(out) = "'Hello \"World\"'"

\* the function was called on a string that starts with a single quote and
\* holds a double quote, and returned a concat( expression
C9_Witness ==
    /\ escOut # None
    /\ Len(escIn[1]) >= 3
    /\ escIn[1][1] = SQ /\ ~NotIn(escIn[1], DQ)
    /\ IsPrefix(ConcatOpen, escOut[1])


\* C10: all processing happens in the browser: in every reachable state no
\* request carrying user-supplied input is on its way to a remote service,
\* and none has been passed on to one.
C10_NothingLeavesBrowser ==
    /\ \A request \in BagToSet(requests) : LogIsBlank(request.logContent)
    /\ ~relayed

\* C11 as stated: in any result set, no string occurs in more than one of
\* the three sequences xpath, css and testIds.
C11_ThreeDisjoint ==
    Shown =>
        /\ Range(Sel.xpath) \cap Range(Sel.css) = {}
        /\ Range(Sel.xpath) \cap Range(Sel.testIds) = {}
        /\ Range(Sel.css) \cap Range(Sel.testIds) = {}

\* C11, amended: no string of xpath occurs in css or in testIds; css and
\* testIds are not disjoint: every testIds entry other than the sentinel is
\* also a css entry, and the sentinel is not one.
C11_XPathApart ==
    Shown =>
        /\ Range(Sel.xpath) \cap (Range(Sel.css) \cup Range(Sel.testIds)) = {}
        /\ \A t \in Range(Sel.testIds) : (t = Sentinel) # (t \in Range(Sel.css))

\* a result set is shown whose testIds entries are css entries too, next to
\* XPaths
C11_Witness ==
    /\ Shown
    /\ Sel.xpath # <<>>
    /\ Sentinel \notin Range(Sel.testIds)
    /\ Len(Sel.testIds) >= 2
    /\ Range(Sel.testIds) \subseteq Range(Sel.css)

\* C12: when a call that got past the blank check does not succeed, the
\* failure is reported and the call emits nothing: the selectors state (a
\* result set or none) is the one held before, with no candidate collected
\* before the failure.
C12_NoPartialEmission ==
    [][(parsed' /\ toast' # ToastSuccess /\ ClickGenerateShapes)
            => (toast' = ToastFailed /\ selectors' = selectors /\ genHtml' = genHtml)]_vars

\* a call has failed on a markup whose first elements had pushed candidates
\* before the failure, while the result set of another markup was shown
C12_Witness ==
    /\ toast = ToastFailed
    /\ parsed
    /\ Shown
    /\ Sel.xpath # <<>>
    /\ genHtml[1] # html
    /\ CssEscapeCalls(SynthesizeAll[html]) # {}
    /\ PushedBeforeRaise(SynthesizeAll[html]).t # <<>>

\* the element sibling right before i, or 0
PreviousElementSibling(doc, i) ==
    LET earlier == {j \in 1..(i - 1) : doc[j].parent = doc[i].parent}
    IN IF earlier = {} THEN 0 ELSE CHOOSE j \in earlier : \A h \in earlier : h <= j

SiblingLabelXPath(doc, i, l) ==
    Render(<<"//label[normalize-space(text())=">>
            \o escapeXpathText(NormalizeText(textContent(doc, l)))
            \o <<"]/following-sibling::", doc[i].tag>>)

\* C13: for every inspected input, textarea or select whose element sibling
\* right before it is a label with non-empty text, xpath holds the
\* following-sibling expression of that label, whatever labels come earlier
\* under the same parent.
C13_SiblingLabel ==
    Shown =>
        \A i \in Inspected(Doc) :
            LET l == PreviousElementSibling(Doc, i)
            IN (Doc[i].tag \in {"input", "textarea", "select"} /\ l # 0
                    /\ Doc[l].tag = "label" /\ Trim(textContent(Doc, l)) # <<>>)
               => SiblingLabelXPath(Doc, i, l) \in Range(Sel.xpath)

\* no element from i up to the root carries a non-empty id
RECURSIVE NoIdOnChain(_, _)
NoIdOnChain(doc, i) ==
    IF i = 0 THEN TRUE
    ELSE ~HasValue(doc[i], "id") /\ NoIdOnChain(doc, doc[i].parent)

FallbackTags == {"input", "button", "a", "select", "textarea"}

\* the last XPath pushed in the turn of element i, as tokens
LastXPathOf(i) ==
    LET ks == PushesOf(Run.acc.xBy, i) IN Run.acc.x[ks[Len(ks)]]

BodyOf(doc) == CHOOSE b \in 1..Len(doc) : doc[b].tag = "body"

\* C14: getXPathTo gives /html for the root and /html/body for the body of
\* the parsed document, so the fallback path of an element with no id on its
\* ancestor-or-self chain starts with /html/body/, the body step carrying no
\* index.
C14_BodyWithoutIndex ==
    Shown =>
        /\ getXPathTo(Doc, 1) = <<"/", "html">>
        /\ getXPathTo(Doc, BodyOf(Doc)) = <<"/", "html", "/", "body">>
        /\ \A i \in Inspected(Doc) :
                (Doc[i].tag \in FallbackTags /\ NoIdOnChain(Doc, i))
                => IsPrefix(<<"/", "html", "/", "body", "/">>, LastXPathOf(i))

\* Read as an XPath expression, every quote of toks opens a literal that a
\* later quote of the same kind closes.
RECURSIVE QuotesClosed(_, _, _)
QuotesClosed(toks, i, open) ==
    IF i > Len(toks) THEN open = ""
    ELSE IF open = ""
         THEN QuotesClosed(toks, i + 1, IF toks[i] \in {SQ, DQ} THEN toks[i] ELSE "")
    ELSE QuotesClosed(toks, i + 1, IF toks[i] = open THEN "" ELSE open)

\* C15: every pushed XPath embeds its literal through escapeXpathText, the
\* fallback path included: the quotes of every pushed XPath close, and the
\* fallback candidate of an element with a non-empty id is //*[@id=<escaped
\* id>], never a single-quoted value that holds a single quote.
C15_AllEscaped ==
    Shown =>
        /\ \A k \in 1..Len(Run.acc.x) : QuotesClosed(Run.acc.x[k], 1, "")
        /\ \A i \in Inspected(Doc) :
                (Doc[i].tag \in FallbackTags /\ HasValue(Doc[i], "id"))
                => LastXPathOf(i) = <<"//*[@id=">> \o escapeXpathText(Doc[i].attrs["id"])
                                        \o <<"]">>

\* the nearest proper ancestor of i with a non-empty id, or 0
RECURSIVE NearestIdAncestor(_, _)
NearestIdAncestor(doc, i) ==
    LET p == doc[i].parent
    IN IF p = 0 THEN 0
       ELSE IF HasValue(doc[p], "id") THEN p
       ELSE NearestIdAncestor(doc, p)

\* the elements from the child of a on the way to i down to i
RECURSIVE ChainBelow(_, _, _)
ChainBelow(doc, a, i) ==
    IF i = a \/ i = 0 THEN <<>> ELSE Append(ChainBelow(doc, a, doc[i].parent), i)

IdAnchor(id) == <<"//*[@id=", SQ>> \o id \o <<SQ, "]">>

\* path is head followed by one /tag[k] step per element of chain
StepsAfter(doc, path, head, chain) ==
    /\ IsPrefix(head, path)
    /\ Len(path) = Len(head) + 5 * Len(chain)
    /\ \A n \in 1..Len(chain) :
        LET at == Len(head) + 5 * (n - 1)
        IN /\ path[at + 1] = "/"
           /\ path[at + 2] = doc[chain[n]].tag
           /\ path[at + 3] = "["
           /\ path[at + 5] = "]"

\* C16: the fallback candidate of an inspected input, button, a, select or
\* textarea is //*[@id='ID'] when the element has a non-empty id ID;
\* otherwise, when an ancestor has one, it is //*[@id='ID'] of the nearest
\* such ancestor and one tag[k] step per level from below that ancestor down
\* to the element, and nothing of the ancestors above it.
C16_IdShortCircuit ==
    Shown =>
        \A i \in Inspected(Doc) :
            Doc[i].tag \in FallbackTags =>
                LET a == NearestIdAncestor(Doc, i)
                IN IF HasValue(Doc[i], "id")
                   THEN LastXPathOf(i) = IdAnchor(Doc[i].attrs["id"])
                   ELSE a # 0 =>
                        StepsAfter(Doc, LastXPathOf(i), IdAnchor(Doc[a].attrs["id"]),
                                   ChainBelow(Doc, a, i))

\* a result set is shown for a document where an element without an id lies
\* two levels below its nearest ancestor with an id, which itself lies under
\* another element with an id
C16_Witness ==
    /\ Shown
    /\ \E i \in Inspected(Doc) :
        LET a == NearestIdAncestor(Doc, i)
        IN /\ Doc[i].tag \in FallbackTags
           /\ ~HasValue(Doc[i], "id")
           /\ a # 0
           /\ NearestIdAncestor(Doc, a) # 0
           /\ Len(ChainBelow(Doc, a, i)) = 2
           /\ Render(LastXPathOf(i)) \in Range(Sel.xpath)

\* the element siblings before i that have i's tag name
PrecedingSameTag(doc, i) ==
    {j \in 1..Len(doc) : j < i /\ doc[j].parent = doc[i].parent /\ doc[j].tag = doc[i].tag}

\* the XPath starts like a fallback path: at the root or at an id anchor
IsPathShaped(toks) == toks # <<>> /\ toks[1] \in {"//*[@id=", "/"}

\* C17: only input, button, a, select and textarea elements push a fallback
\* path, and each step tag[k] of it has k = 1 + the number of element
\* siblings before that element with its tag name.
C17_Indexing ==
    Shown =>
        \A i \in Inspected(Doc) :
            LET ks == PushesOf(Run.acc.xBy, i)
                a == NearestIdAncestor(Doc, i)
                chain == ChainBelow(Doc, IF a # 0 THEN a ELSE 1, i)
                path == LastXPathOf(i)
            IN IF Doc[i].tag \notin FallbackTags
               THEN \A n \in 1..Len(ks) : ~IsPathShaped(Run.acc.x[ks[n]])
               ELSE /\ \A n \in 1..(Len(ks) - 1) : ~IsPathShaped(Run.acc.x[ks[n]])
                    /\ IsPathShaped(path)
                    /\ ~HasValue(Doc[i], "id") =>
                        \A n \in 1..Len(chain) :
                            path[Len(path) - 5 * (Len(chain) - n) - 1]
                                = ToString(1 + Cardinality(PrecedingSameTag(Doc, chain[n])))

\* a result set is shown for a document where an element is the second of
\* its tag under its parent, with a sibling of another tag in between
C17_Witness ==
    /\ Shown
    /\ \E i \in Inspected(Doc) :
        /\ Doc[i].tag \in FallbackTags
        /\ ~HasValue(Doc[i], "id")
        /\ Cardinality(PrecedingSameTag(Doc, i)) = 1
        /\ \E j \in 1..(i - 1) : \E h \in PrecedingSameTag(Doc, i) :
                h < j /\ Doc[j].parent = Doc[i].parent /\ Doc[j].tag # Doc[i].tag
        /\ Render(LastXPathOf(i)) \in Range(Sel.xpath)

StableAttrOrder ==
    <<"name", "placeholder", "type", "role", "aria-label", "alt", "href", "src">>

PlaceIn(seq, v) == CHOOSE n \in 1..Len(seq) : seq[n] = v

\* the place in the cascade of the rule that makes an XPath of this shape:
\* 1-4 the test-id attributes, 5 id, 6 label-for, 7 parent label, 8 sibling
\* label, 9 exact text, 10 contains text, 11-18 the stable attributes, 19 the
\* absolute path
XPathRank(toks) ==
    IF IsPathShaped(toks) THEN 19
    ELSE IF toks[1] = "//label[normalize-space(text())="
         THEN (IF toks[Len(toks) - 1] = "]//" THEN 7 ELSE 8)
    ELSE IF toks[3] = "[@id=" THEN 5
    ELSE IF toks[3] = "[@id=//label[normalize-space(text())=" THEN 6
    ELSE IF toks[3] = "[normalize-space(text())=" THEN 9
    ELSE IF toks[3] = "[contains(normalize-space(text()), " THEN 10
    ELSE IF toks[4] \in Range(TestAttrOrder) THEN PlaceIn(TestAttrOrder, toks[4])
    ELSE 10 + PlaceIn(StableAttrOrder, toks[4])

\* the same for a CSS selector: 1-4 test-id, 5 id, 7 parent label, 11-18
\* stable
CssRank(toks) ==
    IF toks[1] = "label:has(" THEN 7
    ELSE IF toks[2] = "#" THEN 5
    ELSE IF toks[3] \in Range(TestAttrOrder) THEN PlaceIn(TestAttrOrder, toks[3])
    ELSE 10 + PlaceIn(StableAttrOrder, toks[3])

\* the first push that spells the string s
FirstPushOf(pushes, s) ==
    CHOOSE k \in 1..Len(pushes) :
        Render(pushes[k]) = s /\ \A h \in 1..(k - 1) : Render(pushes[h]) # s

\* out lists strings first pushed by earlier elements before those of later
\* ones and, for one element, those of earlier rules before those of later
\* ones
InCascadeOrder(out, pushes, by, Rank(_)) ==
    \A p, q \in 1..Len(out) :
        p < q =>
            LET kp == FirstPushOf(pushes, out[p])
                kq == FirstPushOf(pushes, out[q])
            IN \/ by[kp] < by[kq]
               \/ by[kp] = by[kq] /\ Rank(pushes[kp]) < Rank(pushes[kq])

\* C18: in each of xpath, css and testIds a candidate first emitted by an
\* earlier element of the document precedes one first emitted by a later
\* element, and for one element the candidate of a rule earlier in the
\* cascade (test-id attributes, id, label-for, parent label, sibling label,
\* exact text, contains text, stable attributes, absolute path) precedes
\* that of a later rule.
C18_CascadeOrder ==
    Shown =>
        /\ InCascadeOrder(Sel.xpath, Run.acc.x, Run.acc.xBy, XPathRank)
        /\ InCascadeOrder(Sel.css, Run.acc.c, Run.acc.cBy, CssRank)
        /\ Run.acc.t # <<>> =>
                InCascadeOrder(Sel.testIds, Run.acc.t, Run.acc.tBy, CssRank)

\* a result set is shown for a document where one element pushed six XPaths
\* and three CSS selectors after earlier elements had pushed theirs
C18_Witness ==
    /\ Shown
    /\ \E i, j \in Inspected(Doc) :
        /\ j < i
        /\ Len(PushesOf(Run.acc.xBy, j)) >= 1
        /\ Len(PushesOf(Run.acc.xBy, i)) >= 6
        /\ Len(PushesOf(Run.acc.cBy, i)) >= 3
    /\ Len(Sel.xpath) >= 7

Blank == {" ", "\n", "\t"}

\* s without its leading and trailing white space and with every run of
\* white space inside it made one space
Squeezed(s) ==
    LET kept == SelectSeq([k \in 1..Len(s) |-> k],
                    LAMBDA k : s[k] \notin Blank \/ (k > 1 /\ s[k - 1] \notin Blank))
        spaced == [n \in 1..Len(kept) |-> IF s[kept[n]] \in Blank THEN " " ELSE s[kept[n]]]
    IN IF spaced # <<>> /\ spaced[Len(spaced)] = " "
       THEN SubSeq(spaced, 1, Len(spaced) - 1) ELSE spaced

TextRuleTags == {"button", "a", "div", "span", "h1", "h2", "h3", "p", "legend"}

IsLeaf(doc, i) == \A j \in 1..Len(doc) : doc[j].parent # i

ExactTextXPath(tag, text) ==
    <<"//", tag, "[normalize-space(text())=">> \o escapeXpathText(text) \o <<"]">>

ContainsTextXPath(tag, text) ==
    <<"//", tag, "[contains(normalize-space(text()), ">> \o escapeXpathText(text) \o <<")]">>

IsTextShaped(toks) ==
    Len(toks) >= 3
        /\ toks[3] \in {"[normalize-space(text())=", "[contains(normalize-space(text()), "}

\* C19: an inspected element pushes the exact-text XPath and, right after
\* it, the contains-text XPath of its squeezed text if its tag is one of
\* button, a, div, span, h1, h2, h3, p, legend, it has no element child and
\* the text is non-empty and shorter than 50 characters; otherwise it pushes
\* no XPath of either shape.
C19_TextRule ==
    Shown =>
        \A i \in Inspected(Doc) :
            LET text == Squeezed(textContent(Doc, i))
                ks == PushesOf(Run.acc.xBy, i)
            IN IF Doc[i].tag \in TextRuleTags /\ IsLeaf(Doc, i)
                    /\ text # <<>> /\ Len(text) < 50
               THEN \E n \in 1..(Len(ks) - 1) :
                        /\ Run.acc.x[ks[n]] = ExactTextXPath(Doc[i].tag, text)
                        /\ Run.acc.x[ks[n + 1]] = ContainsTextXPath(Doc[i].tag, text)
                        /\ \A m \in 1..Len(ks) :
                                IsTextShaped(Run.acc.x[ks[m]]) => m \in {n, n + 1}
               ELSE \A n \in 1..Len(ks) : ~IsTextShaped(Run.acc.x[ks[n]])

\* a result set is shown for a document with a leaf of 49 characters, whose
\* two XPaths are shown, a leaf of 50 characters once squeezed, an element
\* with text and an element child, and an element with text whose tag is
\* not of the rule
C19_Witness ==
    /\ Shown
    /\ \E i \in Inspected(Doc) :
        /\ Doc[i].tag \in TextRuleTags /\ IsLeaf(Doc, i)
        /\ Len(Squeezed(textContent(Doc, i))) = 49
        /\ Len(textContent(Doc, i)) > 49
        /\ Render(ExactTextXPath(Doc[i].tag, Squeezed(textContent(Doc, i)))) \in Range(Sel.xpath)
        /\ Render(ContainsTextXPath(Doc[i].tag, Squeezed(textContent(Doc, i)))) \in Range(Sel.xpath)
    /\ \E i \in Inspected(Doc) :
        /\ Doc[i].tag \in TextRuleTags /\ IsLeaf(Doc, i)
        /\ Len(Squeezed(textContent(Doc, i))) = 50
    /\ \E i \in Inspected(Doc) :
        /\ Doc[i].tag \in TextRuleTags /\ ~IsLeaf(Doc, i)
        /\ Squeezed(textContent(Doc, i)) # <<>>
    /\ \E i \in Inspected(Doc) :
        /\ Doc[i].tag \notin TextRuleTags /\ IsLeaf(Doc, i)
        /\ Squeezed(textContent(Doc, i)) # <<>>

IdentChars == Letters \cup Digits \cup {"-", "_"}

\* The name a CSS parser reads from the identifier s: an escape is a
\* backslash and up to six hex digits with one optional white space after
\* them, or a backslash and any other character; [ok |-> FALSE] when s is
\* no identifier.
RECURSIVE IdentValue(_, _, _)
IdentValue(s, i, acc) ==
    IF i > Len(s) THEN [ok |-> acc # <<>>, value |-> acc]
    ELSE IF s[i] = BS
    THEN IF i = Len(s) \/ s[i + 1] = "\n" THEN [ok |-> FALSE, value |-> acc]
         ELSE IF s[i + 1] \in HexDigits
         THEN LET n == HexRun(s, i + 1, 0)
                  after == i + 1 + n
              IN IdentValue(s,
                    IF after <= Len(s) /\ s[after] \in Blank THEN after + 1 ELSE after,
                    Append(acc, CodePoint(HexNumber(SubSeq(s, i + 1, i + n), 0))))
         ELSE IdentValue(s, i + 2, Append(acc, s[i + 1]))
    ELSE IF s[i] \notin IdentChars THEN [ok |-> FALSE, value |-> acc]
    ELSE IF s[i] \in Digits /\ (i = 1 \/ (i = 2 /\ s[1] = "-"))
         THEN [ok |-> FALSE, value |-> acc]
    ELSE IdentValue(s, i + 1, Append(acc, s[i]))

IsIdXPath(toks) == Len(toks) >= 3 /\ toks[3] = "[@id="
IsIdCss(toks) == Len(toks) >= 2 /\ toks[2] = "#"

\* C20: an inspected element with a non-empty id ID and tag T pushes
\* //T[@id=<escaped ID>] onto xpaths and T#<identifier> onto cssSelectors,
\* the identifier being one a CSS parser reads as ID, and nothing onto
\* dataTestIdSelectors beyond its test-id attributes; an element with no id
\* or an empty one pushes no string of either shape.
C20_IdRule ==
    Shown =>
        \A i \in Inspected(Doc) :
            LET xs == PushesOf(Run.acc.xBy, i)
                cs == PushesOf(Run.acc.cBy, i)
                ts == PushesOf(Run.acc.tBy, i)
                idX == {n \in 1..Len(xs) : IsIdXPath(Run.acc.x[xs[n]])}
                idC == {n \in 1..Len(cs) : IsIdCss(Run.acc.c[cs[n]])}
            IN /\ Len(ts) = Cardinality({a \in TestAttrs : HasValue(Doc[i], a)})
               /\ IF HasValue(Doc[i], "id")
                  THEN /\ Cardinality(idX) = 1 /\ Cardinality(idC) = 1
                       /\ \A n \in idX :
                            Run.acc.x[xs[n]] =
                                <<"//", Doc[i].tag, "[@id=">>
                                    \o escapeXpathText(Doc[i].attrs["id"]) \o <<"]">>
                       /\ \A n \in idC :
                            LET sel == Run.acc.c[cs[n]]
                            IN /\ sel[1] = Doc[i].tag
                               /\ IdentValue(SubSeq(sel, 3, Len(sel)), 1, <<>>)
                                    = [ok |-> TRUE, value |-> Doc[i].attrs["id"]]
                  ELSE idX = {} /\ idC = {}

\* a result set is shown for a document with an id that holds a single
\* quote, an id that starts with a digit and an empty id, and holds the
\* selectors of the first two
C20_Witness ==
    /\ Shown
    /\ \E i, j, h \in Inspected(Doc) :
        /\ HasValue(Doc[i], "id") /\ SQ \in Range(Doc[i].attrs["id"])
        /\ HasValue(Doc[j], "id") /\ Doc[j].attrs["id"][1] \in Digits
        /\ "id" \in DOMAIN Doc[h].attrs /\ Doc[h].attrs["id"] = <<>>
        /\ Render(<<"//", Doc[i].tag, "[@id=">> \o escapeXpathText(Doc[i].attrs["id"])
                    \o <<"]">>) \in Range(Sel.xpath)
        /\ \E c \in 1..Len(Run.acc.c) :
            /\ Run.acc.cBy[c] = j
            /\ IsIdCss(Run.acc.c[c])
            /\ Run.acc.c[c] # <<Doc[j].tag, "#">> \o Doc[j].attrs["id"]
            /\ Render(Run.acc.c[c]) \in Range(Sel.css)

\* the proper ancestors of i
RECURSIVE Ancestors(_, _)
Ancestors(doc, i) ==
    IF doc[i].parent = 0 THEN {}
    ELSE {doc[i].parent} \cup Ancestors(doc, doc[i].parent)

\* the nearest label among the proper ancestors of i (the one latest in
\* document order), or 0
NearestLabel(doc, i) ==
    LET ls == {a \in Ancestors(doc, i) : doc[a].tag = "label"}
    IN IF ls = {} THEN 0 ELSE CHOOSE a \in ls : \A b \in ls : b <= a

\* the characters of l's subtree, in document order
SubtreeText(doc, l) ==
    Flatten([j \in 1..Len(doc) |->
        IF j = l \/ l \in Ancestors(doc, j) THEN doc[j].text ELSE <<>>])

ParentLabelXPath(doc, i, l) ==
    <<"//label[normalize-space(text())=">>
        \o escapeXpathText(Squeezed(SubtreeText(doc, l))) \o <<"]//", doc[i].tag>>

IsParentLabelXPath(toks) ==
    Len(toks) >= 2 /\ toks[1] = "//label[normalize-space(text())="
        /\ toks[Len(toks) - 1] = "]//"

IsHasCss(toks) == toks # <<>> /\ toks[1] = "label:has("

StableAttrs == Range(StableAttrOrder)

IsStableXPath(toks) ==
    Len(toks) >= 6 /\ toks[1] = "//" /\ toks[3] = "[@" /\ toks[4] \in StableAttrs

IsStableCss(toks) == Len(toks) >= 5 /\ toks[2] = "[" /\ toks[3] \in StableAttrs

\* toks is //T[@A=<a literal whose XPath value is v>]
IsAttrXPathOf(toks, tag, a, v) ==
    /\ Len(toks) >= 6
    /\ SubSeq(toks, 1, 5) = <<"//", tag, "[@", a, "=">>
    /\ toks[Len(toks)] = "]"
    /\ XPathStringValue(SubSeq(toks, 6, Len(toks) - 1)) = Some(v)

\* toks is T[A="<a CSS string whose value is v>"]
IsAttrCssOf(toks, tag, a, v) ==
    /\ Len(toks) >= 7
    /\ SubSeq(toks, 1, 4) = <<tag, "[", a, "=">>
    /\ toks[5] = DQ /\ toks[Len(toks) - 1] = DQ /\ toks[Len(toks)] = "]"
    /\ CssStringValue(SubSeq(toks, 6, Len(toks) - 2), 1, <<>>) = [ok |-> TRUE, value |-> v]

\* C22: the pushes of an inspected element T that have the shape of a
\* stable-attribute selector are, on xpaths and on cssSelectors alike, one
\* for each of name, placeholder, type, role, aria-label, alt, href and src
\* that has a non-empty value V, in that order: //T[@A=<XPath literal of V>]
\* and T[A=<CSS string of V>].  Absent and empty attributes push nothing,
\* and dataTestIdSelectors gets nothing but the test-id selectors.
C22_StableRule ==
    Shown =>
        \A i \in Inspected(Doc) :
            LET el == Doc[i]
                present == SelectSeq(StableAttrOrder, LAMBDA a : HasValue(el, a))
                xs == SelectSeq(PushesOf(Run.acc.xBy, i),
                                LAMBDA k : IsStableXPath(Run.acc.x[k]))
                cs == SelectSeq(PushesOf(Run.acc.cBy, i),
                                LAMBDA k : IsStableCss(Run.acc.c[k]))
            IN /\ Len(xs) = Len(present) /\ Len(cs) = Len(present)
               /\ \A n \in 1..Len(present) :
                    /\ IsAttrXPathOf(Run.acc.x[xs[n]], el.tag, present[n], el.attrs[present[n]])
                    /\ IsAttrCssOf(Run.acc.c[cs[n]], el.tag, present[n], el.attrs[present[n]])
                    /\ Render(Run.acc.x[xs[n]]) \in Range(Sel.xpath)
                    /\ Render(Run.acc.c[cs[n]]) \in Range(Sel.css)
               /\ Len(PushesOf(Run.acc.tBy, i))
                    = Cardinality({a \in TestAttrs : HasValue(el, a)})

\* a result set is shown for an element that has the eight attributes, one
\* of them empty, one with both quotes, one with a backslash and one with a
\* double quote, and holds its name selectors before its src selectors
C22_Witness ==
    /\ Shown
    /\ \E i \in Inspected(Doc) :
        LET el == Doc[i]
        IN /\ StableAttrs \subseteq DOMAIN el.attrs
           /\ el.attrs["aria-label"] = <<>>
           /\ ~NotIn(el.attrs["type"], SQ) /\ ~NotIn(el.attrs["type"], DQ)
           /\ ~NotIn(el.attrs["role"], BS)
           /\ ~NotIn(el.attrs["alt"], DQ)
           /\ \E p, q \in 1..Len(Sel.css) :
                /\ p < q
                /\ Sel.css[p] = Render(<<el.tag, "[", "name", "=">>
                                        \o escapeCssAttr(el.attrs["name"]) \o <<"]">>)
                /\ Sel.css[q] = Render(<<el.tag, "[", "src", "=">>
                                        \o escapeCssAttr(el.attrs["src"]) \o <<"]">>)

\* s read from place i with \\ taken as a backslash and \" as a double
\* quote: [ok |-> FALSE] at a double quote that no backslash escapes and at
\* a backslash that escapes nothing
RECURSIVE Unescaped(_, _, _)
Unescaped(s, i, acc) ==
    IF i > Len(s) THEN [ok |-> TRUE, value |-> acc]
    ELSE IF s[i] = DQ THEN [ok |-> FALSE, value |-> acc]
    ELSE IF s[i] # BS THEN Unescaped(s, i + 1, Append(acc, s[i]))
    ELSE IF i < Len(s) /\ s[i + 1] \in {BS, DQ}
         THEN Unescaped(s, i + 2, Append(acc, s[i + 1]))
    ELSE [ok |-> FALSE, value |-> acc]

\* C23: what escapeCssAttr(v) returns starts and ends with a double quote,
\* and what stands between the two reads, with \\ taken as a backslash and
\* \" as a double quote, as v, with no double quote left unescaped (so the
\* closing quote is not escaped either).
C23_CssAttrRoundTrip ==
    cssIn # None =>
        LET out == cssOut[1]
        IN /\ Len(out) >= 2
           /\ out[1] = DQ /\ out[Len(out)] = DQ
           /\ Unescaped(SubSeq(out, 2, Len(out) - 1), 1, <<>>)
                = [ok |-> TRUE, value |-> cssIn[1]]

\* escapeCssAttr was called on a value that holds a backslash right before
\* a double quote and ends in a backslash
C23_Witness ==
    /\ cssIn = Some(<<BS, DQ, "a", BS>>)
    /\ cssOut = Some(<<DQ, BS, BS, BS, DQ, "a", BS, BS, DQ>>)

ParentElementName == <<"p","a","r","e","n","t","E","l","e","m","e","n","t">>

\* the forms of doc whose parentElement reads as a list of controls: those
\* with two or more controls below them that are named parentElement
ShadowedForms(doc) ==
    {f \in 1..Len(doc) :
        /\ doc[f].tag = "form"
        /\ Cardinality({j \in 1..Len(doc) :
                /\ f \in Ancestors(doc, j)
                /\ doc[j].tag \in {"input", "select", "textarea", "button"}
                /\ "name" \in DOMAIN doc[j].attrs
                /\ doc[j].attrs["name"] = ParentElementName}) >= 2}

\* the inspected elements whose fallback path cannot be computed: the walk
\* up from them comes to such a form before it comes to an id
FailingPaths(doc) ==
    {i \in Inspected(doc) :
        /\ doc[i].tag \in FallbackTags
        /\ ~HasValue(doc[i], "id")
        /\ \E f \in ShadowedForms(doc) \cap Ancestors(doc, i) :
            \A a \in Ancestors(doc, i) : a > f => ~HasValue(doc[a], "id")}

NoIdInspected(doc) == \A i \in Inspected(doc) : ~HasValue(doc[i], "id")

\* what rules 1 to 5 push onto xpaths for element i
RulesOneToFive(doc, i) ==
    ThenAll(<<TestIdRule(doc[i]), IdRule(doc[i]), LabelRule(doc, i),
              TextRule(doc, i), StableRule(doc[i])>>).x

\* C24: a call on a markup with elements whose fallback path cannot be
\* computed ends in success with a result set; such an element pushes what
\* rules 1 to 5 give for it and no fallback path, and the cascade runs on
\* every inspected element after it, the fallback elements among them that
\* do not fail pushing their paths.
C24_PathFailureSwallowed ==
    [][(/\ html' = html
        /\ ~OnlyWhitespace(html)
        /\ (cssEscape \/ NoIdInspected(SynthesizeAll[html].doc))
        /\ FailingPaths(SynthesizeAll[html].doc) # {}
        /\ ClickGenerateForms)
        => LET run == SynthesizeAll[html]
               doc == run.doc
           IN /\ toast' = ToastSuccess
              /\ selectors' # None
              /\ genHtml' = Some(html)
              /\ \A i \in FailingPaths(doc) :
                    LET ks == PushesOf(run.acc.xBy, i)
                    IN /\ [n \in 1..Len(ks) |-> run.acc.x[ks[n]]] = RulesOneToFive(doc, i)
                       /\ \A n \in 1..Len(ks) :
                            /\ ~IsPathShaped(run.acc.x[ks[n]])
                            /\ Render(run.acc.x[ks[n]]) \in Range(selectors'[1].xpath)
                       /\ \A j \in Inspected(doc) :
                            j > i =>
                                /\ j \in run.acc.ran
                                /\ (doc[j].tag \in FallbackTags /\ j \notin FailingPaths(doc))
                                    => \E k \in Range(PushesOf(run.acc.xBy, j)) :
                                            /\ IsPathShaped(run.acc.x[k])
                                            /\ Render(run.acc.x[k])
                                                    \in Range(selectors'[1].xpath)]_vars

\* the success toast and a result set are shown for a document with an
\* element whose fallback path cannot be computed; the set holds that
\* element's attribute XPath and the fallback path of a later element
C24_Witness ==
    /\ Shown /\ toast = ToastSuccess /\ html = genHtml[1]
    /\ \E i \in FailingPaths(Doc) :
        /\ HasValue(Doc[i], "name")
        /\ Render(<<"//", Doc[i].tag, "[@", "name", "=">>
                    \o escapeXpathText(Doc[i].attrs["name"]) \o <<"]">>) \in Range(Sel.xpath)
        /\ \E j \in Inspected(Doc) :
            /\ j > i /\ Doc[j].tag \in FallbackTags /\ j \notin FailingPaths(Doc)
            /\ \E k \in Range(PushesOf(Run.acc.xBy, j)) :
                /\ IsPathShaped(Run.acc.x[k])
                /\ Render(Run.acc.x[k]) \in Range(Sel.xpath)

\* the result set of one call on markup m, started from empty arrays
FreshResult(m) ==
    ResultSet([x |-> <<>>, c |-> <<>>, t |-> <<>>], SynthesizeAll[m].acc)

\* C25: the result set shown is the one a single call on the markup of the
\* most recent successful call gives from empty arrays, whatever calls
\* (successful, rejected for white space, failed) came before and after it.
C25_FreshResult ==
    Shown => Sel = FreshResult(genHtml[1])

\* the result set of a second markup is shown, with no string in common
\* with the XPaths that the first successful call gave, and the last call,
\* on yet another markup, has failed
C25_Witness ==
    /\ Shown /\ probe # None
    /\ probe[1].html # genHtml[1]
    /\ probe[1].result.xpath # <<>> /\ Sel.xpath # <<>>
    /\ Range(probe[1].result.xpath) \cap Range(Sel.xpath) = {}
    /\ toast = ToastFailed
    /\ html # genHtml[1]

\* the first 100 elements of doc: tags, attributes, own text and parents
FirstHundred(doc) == IF Len(doc) <= 100 THEN doc ELSE SubSeq(doc, 1, 100)

\* C26: the result set shown is the result set of every markup whose parsed
\* document has the same first 100 elements as the one it was made from.
C26_FirstHundredOnly ==
    Shown =>
        \A m \in MarkupsForms :
            FirstHundred(SynthesizeAll[m].doc) = FirstHundred(Doc)
                => FreshResult(m) = Sel

\* C27: when an analysis and insights are both displayed, the insights are
\* about the log the analysis was computed from.
C27_InsightsMatchAnalysis ==
    (analysis # None /\ aiInsights # None) => aiInsights = analysisOf

\* C28: isLoadingAI is true exactly while a request for insights is under
\* way (sent and not yet answered, or answered and not yet handled), and no
\* two are under way at once.
C28_LoadingIffInFlight ==
    /\ isLoadingAI <=> UnderWay > 0
    /\ UnderWay <= 1

\* C29 as stated: isValid is true only when the input parses and false only
\* when it does not, an edit of the input makes it null, validateJson and
\* beautifyJson make it the outcome of parsing the input, and jsonToCsv,
\* csvToJson and copyOutput leave it as it is.
C29_IsValidTracksInput ==
    [][/\ isValid' # None => isValid' = Some(JSONparse(input').ok)
       /\ input' # input => isValid' = None
       /\ (ClickValidate \/ ClickBeautify) => isValid' = Some(JSONparse(input).ok)
       /\ (ClickJsonToCsv \/ ClickCsvToJson \/ ClickCopy) => isValid' = isValid]_vars

\* C29, amended: the same, validateJson and beautifyJson making isValid the
\* outcome of parsing only on an input that is not white space alone and
\* leaving it as it is (null) on one that is.
C29_IsValidTracksNonBlankInput ==
    [][/\ isValid' # None => isValid' = Some(JSONparse(input').ok)
       /\ input' # input => isValid' = None
       /\ (ClickValidate \/ ClickBeautify) =>
            IF \A k \in 1..Len(input) : input[k] \in Blank
            THEN isValid' = isValid /\ isValid = None
            ELSE isValid' = Some(JSONparse(input).ok)
       /\ (ClickJsonToCsv \/ ClickCsvToJson \/ ClickCopy) => isValid' = isValid]_vars

\* validateJson or beautifyJson has run on an input of white space, typed
\* over an array that had been found valid and beautified, and isValid is
\* null
C29_Witness ==
    /\ checked
    /\ input # <<>> /\ \A k \in 1..Len(input) : input[k] = SP
    /\ isValid = None
    /\ output = <<"[", "\n", SP, SP, "1", "\n", "]">>

(***************************************************************************)
(* ScreenshotComparator (src/src/pages/ScreenshotComparator.tsx).  A file  *)
(* is its type and, when it can be decoded as an image, its pixels: one    *)
(* row of black ("b") and white ("w") pixels.  A data URL keeps the type   *)
(* and names the content.  An Image given a data URL gets a load event     *)
(* when the content decodes and an error event when it does not.           *)
(***************************************************************************)
Files == {"white", "black", "row", "broken", "notes"}

FileType(file) == IF file = "notes" THEN "text/plain" ELSE "image/png"

\* file.type.startsWith("image/")
IsImageType(type) == type \in {"image/png"}

\* the pixels of a file's content, None for content that is no image
Pixels(file) ==
    CASE file = "white" -> Some(<<"w">>)
      [] file = "black" -> Some(<<"b">>)
      [] file = "row" -> Some(<<"b", "w">>)
      [] OTHER -> None

readAsDataURL(file) == <<"data:", FileType(file), ";base64,", file>>

\* what an Image decodes from its src
Decode(url) == Pixels(url[4])

MaxReaders == 1
MaxCompares == 1

handleImageUpload(file, type) ==
    IF ~IsImageType(FileType(file))
    THEN /\ shotToast' = Some("Please upload an image file")
         /\ UNCHANGED <<beforeImage, afterImage, diffImage, diffPercentage,
                        readers, compares>>
    ELSE /\ Cardinality(readers) < MaxReaders
         /\ readers' = readers \cup {[type |-> type, file |-> file]}
         /\ UNCHANGED <<beforeImage, afterImage, diffImage, diffPercentage,
                        shotToast, compares>>

\* reader.onload
readerOnload(r) ==
    /\ r \in readers
    /\ readers' = readers \ {r}
    /\ IF r.type = "before"
       THEN beforeImage' = Some(readAsDataURL(r.file)) /\ UNCHANGED afterImage
       ELSE afterImage' = Some(readAsDataURL(r.file)) /\ UNCHANGED beforeImage
    /\ UNCHANGED <<diffImage, diffPercentage, shotToast, compares>>

\* compareImages up to its await: the early return, or two Images given
\* their src and a load handler each
compareImages ==
    IF beforeImage = None \/ afterImage = None
    THEN /\ shotToast' = Some("Please upload both images first")
         /\ UNCHANGED <<beforeImage, afterImage, diffImage, diffPercentage,
                        readers, compares>>
    ELSE /\ Len(compares) < MaxCompares
         /\ compares' = Append(compares,
                [img1 |-> beforeImage[1], img2 |-> afterImage[1],
                 on1 |-> "pending", on2 |-> "pending", done |-> FALSE])
         /\ UNCHANGED <<beforeImage, afterImage, diffImage, diffPercentage,
                        shotToast, readers>>

\* the event an Image gets once its src has been fetched and decoded
ImageEvent(url) == IF Decode(url) = None THEN "error" ELSE "load"

\* img1 of call k gets its event: load runs the handler that resolves the
\* first promise, error has no handler
img1Settles(k) ==
    /\ k \in 1..Len(compares)
    /\ compares[k].on1 = "pending"
    /\ compares' = [compares EXCEPT ![k].on1 = ImageEvent(compares[k].img1)]
    /\ UNCHANGED <<beforeImage, afterImage, diffImage, diffPercentage,
                   shotToast, readers>>

img2Settles(k) ==
    /\ k \in 1..Len(compares)
    /\ compares[k].on2 = "pending"
    /\ compares' = [compares EXCEPT ![k].on2 = ImageEvent(compares[k].img2)]
    /\ UNCHANGED <<beforeImage, afterImage, diffImage, diffPercentage,
                   shotToast, readers>>

Wider(a, b) == IF a >= b THEN a ELSE b

\* ctx.drawImage(img, 0, 0, width, height) on a row of pixels
drawImage(pixels, width) ==
    [x \in 1..width |-> pixels[((x - 1) * Len(pixels)) \div width + 1]]

\* pixelmatch(img1Data, img2Data, diffData, width, height): the pixels
\* that differ, drawn red in the diff, the others drawn faint
DiffData(d1, d2) ==
    [x \in 1..Len(d1) |-> IF d1[x] # d2[x] THEN "red" ELSE "faint"]

pixelmatch(d1, d2) == Cardinality({x \in 1..Len(d1) : d1[x] # d2[x]})

\* parseFloat(((numDiffPixels / totalPixels) * 100).toFixed(2)), held in
\* hundredths of a percent
Percentage(numDiffPixels, totalPixels) ==
    (2 * numDiffPixels * 10000 + totalPixels) \div (2 * totalPixels)

\* compareImages after its await, which ends when both promises are resolved
compareResumes(k) ==
    /\ k \in 1..Len(compares)
    /\ ~compares[k].done
    /\ compares[k].on1 = "load" /\ compares[k].on2 = "load"
    /\ LET p1 == Decode(compares[k].img1)[1]
           p2 == Decode(compares[k].img2)[1]
           width == Wider(Len(p1), Len(p2))
           img1Data == drawImage(p1, width)
           img2Data == drawImage(p2, width)
       IN  /\ diffImage' = Some(DiffData(img1Data, img2Data))
           /\ diffPercentage' =
                Some(Percentage(pixelmatch(img1Data, img2Data), width))
    /\ shotToast' = Some("Comparison complete!")
    /\ compares' = [compares EXCEPT ![k].done = TRUE]
    /\ UNCHANGED <<beforeImage, afterImage, readers>>

downloadDiff ==
    /\ shotToast' = IF diffImage = None
                    THEN Some("No diff image to download. Compare images first!")
                    ELSE Some("Diff image downloaded!")
    /\ UNCHANGED <<beforeImage, afterImage, diffImage, diffPercentage,
                   readers, compares>>

otherVars == <<xpathVars, escVars, logVars, cssVars, jsonVars>>

UploadImage ==
    \E file \in Files, type \in {"before", "after"} :
        handleImageUpload(file, type) /\ UNCHANGED otherVars

ReaderLoads == \E r \in readers : readerOnload(r) /\ UNCHANGED otherVars

\* the Compare Screenshots button, disabled until both images are set
ClickCompare ==
    /\ beforeImage # None /\ afterImage # None
    /\ compareImages
    /\ UNCHANGED otherVars

Img1Settles(k) == img1Settles(k) /\ UNCHANGED otherVars

Img2Settles(k) == img2Settles(k) /\ UNCHANGED otherVars

CompareResumes(k) == compareResumes(k) /\ UNCHANGED otherVars

\* the Download Diff button, rendered once there is a diff image
ClickDownload == diffImage # None /\ downloadDiff /\ UNCHANGED otherVars

NextShot ==
    \/ UploadImage
    \/ ReaderLoads
    \/ ClickCompare
    \/ \E k \in 1..MaxCompares : Img1Settles(k)
    \/ \E k \in 1..MaxCompares : Img2Settles(k)
    \/ \E k \in 1..MaxCompares : CompareResumes(k)
    \/ ClickDownload

\* The browser delivers every event it has queued and runs every
\* continuation whose promise is resolved; nothing obliges the user to act.
SpecShot ==
    /\ Init
    /\ [][NextShot]_vars
    /\ WF_vars(ReaderLoads)
    /\ \A k \in 1..MaxCompares :
         /\ WF_vars(Img1Settles(k))
         /\ WF_vars(Img2Settles(k))
         /\ WF_vars(CompareResumes(k))

\* C30: a compareImages call started with both images set eventually
\* completes, with the diff image set and a difference percentage between 0
\* and 100, whatever event either Image gets.
C30_CompareCompletes ==
    \A k \in 1..MaxCompares :
        (Len(compares) >= k) ~>
            /\ Len(compares) >= k
            /\ compares[k].done
            /\ diffImage # None
            /\ diffPercentage # None
            /\ diffPercentage[1] \in 0..10000

====
